---- MODULE Spec2Model ----
(***************************************************************************)
(* The temporary policy override engine of NextDnsRepository               *)
(* (src/domains/nextdns/repository.py): create_focus_session, its          *)
(* compensating rollback, the per-session expiry task, the rollback        *)
(* procedure and get_filters_state, run as coroutines of one asyncio loop  *)
(* against the remote NextDNS profile.                                     *)
(*                                                                         *)
(* One step of the model is what one coroutine executes between two        *)
(* suspension points.  A remote call is a suspension point; the step that  *)
(* follows it holds the remote's answer (applied, or failed without        *)
(* effect) and everything the coroutine runs up to its next remote call.   *)
(* The blocks under the session-store lock contain no await, so each is    *)
(* part of a single step.                                                  *)
(*                                                                         *)
(* Strings that the code transforms character by character (domains) are   *)
(* sequences of one-character strings.                                     *)
(***************************************************************************)
EXTENDS Integers, Sequences, FiniteSets, TLC

\* ------------------------------------------------------------------ bounds

\* create_focus_session calls issued in one behaviour (one client, one call
\* at a time); also the number of session ids.
MaxCreates == 1
\* Clock resolution: ticks per second (datetime has microseconds).
TicksPerSecond == 2
\* The clock is observed during the first ClockWindow ticks, and from one
\* tick before the earliest possible expiry until the expiry of every session
\* of minimal duration created in the first ClockWindow ticks.
ClockWindow == 1
\* Concurrent callers of ensure_profile_loaded, one call each.
MaxCallers == 3
\* Sessions in the store while the listing of get_filters_state is observed
\* by itself, and the ticks the clock is then observed past Horizon.
MaxListed == 2
ClockOverrun == 1
\* Concurrent callers of discover_devices, one call each, the addresses a
\* discovery round can find, and the times the monotonic clock is observed
\* to go on, by the discovery TTL each time.
MaxDiscoverers == 3
MaxAddresses == 1
MaxMonotonicSteps == 1
\* Invocations of refresh_sunset_fade_jobs in all, and the times the wall
\* clock is observed to go on.
MaxRefreshes == 3
MaxWallSteps == 4

\* ------------------------------------------------------- program constants

MinDurationMinutes == 5
DISCOVERY_TTL == 300
SUNSET_FADE_STEPS == 20
SUNSET_FADE_DURATION_MINUTES == 60
SUNSET_FADE_JOB_PREFIX == "sunset_fade_step_"
MaxDurationMinutes == 1440
SecondsPerMinute == 60

\* ----------------------------------------------------------------- strings

Space == " "
Dot == "."

CharCode(c) ==
  CASE c = " " -> 32
    [] c = "+" -> 43
    [] c = "." -> 46
    [] c = "0" -> 48
    [] c = "1" -> 49
    [] c = "2" -> 50
    [] c = "3" -> 51
    [] c = "4" -> 52
    [] c = "5" -> 53
    [] c = "6" -> 54
    [] c = "7" -> 55
    [] c = "8" -> 56
    [] c = "9" -> 57
    [] c = ":" -> 58
    [] c = "A" -> 65
    [] c = "B" -> 66
    [] c = "a" -> 97
    [] c = "b" -> 98
    [] c = "d" -> 100
    [] c = "g" -> 103
    [] c = "k" -> 107
    [] c = "s" -> 115
    [] c = "t" -> 116
    [] c = "x" -> 120

\* str.lower() on one character
LowerChar(c) ==
  CASE c = "A" -> "a"
    [] c = "B" -> "b"
    [] OTHER -> c

RECURSIVE LStrip(_)
LStrip(s) == IF s # <<>> /\ Head(s) = Space THEN LStrip(Tail(s)) ELSE s

RECURSIVE RStrip(_, _)
RStrip(s, c) ==
  IF s # <<>> /\ s[Len(s)] = c THEN RStrip(SubSeq(s, 1, Len(s) - 1), c) ELSE s

\* str.strip()
Strip(s) == RStrip(LStrip(s), Space)

\* str.lower()
Lower(s) == [i \in 1..Len(s) |-> LowerChar(s[i])]

\* domain.strip().lower().rstrip(".")
_normalize_domain(domain) == RStrip(Lower(Strip(domain)), Dot)

\* urllib.parse.quote_plus on the characters of the model: a space becomes
\* "+", letters and "." are kept
quote_plus(s) == [i \in 1..Len(s) |-> IF s[i] = Space THEN "+" ELSE s[i]]

\* Python's str ordering: by code point, a proper prefix first
RECURSIVE StrLess(_, _)
StrLess(s, t) ==
  IF s = <<>> THEN t # <<>>
  ELSE IF t = <<>> THEN FALSE
  ELSE IF Head(s) = Head(t) THEN StrLess(Tail(s), Tail(t))
  ELSE CharCode(Head(s)) < CharCode(Head(t))

SeqToSet(q) == {q[i] : i \in 1..Len(q)}

\* sorted(set(...)) of strings
RECURSIVE SortedStrings(_)
SortedStrings(S) ==
  IF S = {} THEN <<>>
  ELSE LET m == CHOOSE x \in S : \A y \in S \ {x} : StrLess(x, y)
       IN <<m>> \o SortedStrings(S \ {m})

\* [x for x in q if keep(x)]
RECURSIVE SelectKept(_, _)
SelectKept(q, S) ==
  IF q = <<>> THEN <<>>
  ELSE (IF Head(q) \in S THEN <<Head(q)>> ELSE <<>>) \o SelectKept(Tail(q), S)

\* ------------------------------------------------------------------ inputs

ads == <<"a", "d", "s">>
tiktok == <<"t", "k">>
bogus == <<"b", "g">>

NoError == [kind |-> "none"]

NoProfile == [loaded |-> FALSE]

\* The remote profiles a behaviour starts from: parental control with one
\* category and one service, deny-list ids as the remote stores them
\* (lower case, no dot at the end), each id once.
InitialProfiles ==
  { [parentalControl |->
       [safeSearch |-> FALSE, youtubeRestrictedMode |-> FALSE, blockBypass |-> FALSE,
        categories |-> (ads :> FALSE), services |-> (tiktok :> FALSE)],
     denylist |-> {}],
    [parentalControl |->
       [safeSearch |-> FALSE, youtubeRestrictedMode |-> TRUE, blockBypass |-> FALSE,
        categories |-> (ads :> TRUE), services |-> (tiktok :> TRUE)],
     denylist |-> {[id |-> <<"a">>, active |-> TRUE], [id |-> <<"b">>, active |-> FALSE]}] }

Request(duration, domains, cats, svcs, flag) ==
  [duration_minutes |-> duration, domains |-> domains,
   category_ids |-> cats, service_ids |-> svcs,
   safe_search |-> TRUE, youtube_restricted_mode |-> flag, block_bypass |-> TRUE]

\* The requests a client sends.
Requests ==
  { Request(5, << <<"b">>, <<" ", "A", ".">>, <<"a">> >>, <<ads, ads>>, <<tiktok>>, FALSE),
    Request(5, << <<"a">> >>, <<bogus, ads>>, <<>>, TRUE),
    Request(5, << <<"a">> >>, <<ads>>, <<bogus>>, TRUE),
    Request(4, << <<"a">> >>, <<>>, <<>>, TRUE) }

\* The requests sent while get_filters_state is observed.
QueryRequests ==
  { Request(5, << <<"A", ".">> >>, <<ads>>, <<>>, TRUE),
    Request(5, << <<"a">> >>, <<bogus, ads>>, <<>>, TRUE) }

\* The requests that probe the validation of lines 279-287: the durations
\* around both limits, a domain that normalizes to the empty string, and a
\* domain with a space before its final dot.
BoundaryDurations ==
  {MinDurationMinutes - 1, MinDurationMinutes, MaxDurationMinutes, MaxDurationMinutes + 1}

ValidationRequests ==
  {Request(d, << <<"a">> >>, <<>>, <<>>, TRUE) : d \in BoundaryDurations}
    \cup {Request(MinDurationMinutes, << <<" ", ".">>, <<"a">> >>, <<>>, <<>>, TRUE),
          Request(MinDurationMinutes, << <<"a", " ", ".">>, <<"A">> >>, <<>>, <<>>, TRUE)}

\* The requests of two sessions that are nested: they share the category,
\* and the domain "a" in two spellings.
NestedRequests ==
  { Request(5, << <<"b">>, <<" ", "A", ".">>, <<"a">> >>, <<ads, ads>>, <<tiktok>>, FALSE),
    Request(5, << <<"A", ".">> >>, <<ads>>, <<>>, TRUE) }

\* Two sessions are nested: A and B.
NestedSessions == 2

SessionIds == 1..(IF MaxCreates > NestedSessions THEN MaxCreates ELSE NestedSessions)
Origins == {"expiry", "manual"}

\* ------------------------------------------------------------------ remote

\* The calls _request sends: method, path below the profile URL, JSON body.
PatchParentalControl(payload) ==
  [method |-> "PATCH", path |-> <<"parentalControl">>, json |-> payload]
PatchDenylistEntry(domain, active) ==
  [method |-> "PATCH", path |-> <<"denylist", quote_plus(domain)>>,
   json |-> [active |-> active]]
CreateDenylistEntry(domain) ==
  [method |-> "POST", path |-> <<"denylist">>, json |-> [id |-> domain, active |-> TRUE]]
DeleteDenylistEntry(domain) ==
  [method |-> "DELETE", path |-> <<"denylist", quote_plus(domain)>>, json |-> <<>>]

IsParentalCall(call) == call.path = <<"parentalControl">>
IsDenyCall(call) == call.path[1] = "denylist"

DenyIds(denylist) == {e.id : e \in denylist}

\* Would the remote profile r accept the call?  Entries are addressed by id
\* (the path segment as sent: the remote undoes percent-encoding only);
\* a PATCH or DELETE of an id that is not there and a POST of an id that is
\* there are refused.
RemoteAccepts(call, r) ==
  IF IsParentalCall(call)
  THEN /\ \A i \in 1..Len(call.json.categories) :
            call.json.categories[i].id \in DOMAIN r.parentalControl.categories
       /\ \A i \in 1..Len(call.json.services) :
            call.json.services[i].id \in DOMAIN r.parentalControl.services
  ELSE IF call.method = "POST" THEN call.json.id \notin DenyIds(r.denylist)
  ELSE call.path[2] \in DenyIds(r.denylist)

\* active values after merging the {id, active} entries of a payload list
MergeEntries(current, entries) ==
  [id \in DOMAIN current |->
     IF \E i \in 1..Len(entries) : entries[i].id = id
     THEN (entries[CHOOSE i \in 1..Len(entries) :
                     /\ entries[i].id = id
                     /\ \A j \in (i + 1)..Len(entries) : entries[j].id # id]).active
     ELSE current[id]]

\* The remote profile after an accepted call.
RemoteAfter(call, r) ==
  IF IsParentalCall(call)
  THEN [r EXCEPT !.parentalControl =
          [safeSearch |-> call.json.safeSearch,
           youtubeRestrictedMode |-> call.json.youtubeRestrictedMode,
           blockBypass |-> call.json.blockBypass,
           categories |-> MergeEntries(r.parentalControl.categories, call.json.categories),
           services |-> MergeEntries(r.parentalControl.services, call.json.services)]]
  ELSE IF call.method = "POST"
  THEN [r EXCEPT !.denylist = @ \cup {[id |-> call.json.id, active |-> call.json.active]}]
  ELSE IF call.method = "DELETE"
  THEN [r EXCEPT !.denylist = {e \in @ : e.id # call.path[2]}]
  ELSE [r EXCEPT !.denylist =
          {IF e.id = call.path[2] THEN [e EXCEPT !.active = call.json.active] ELSE e
             : e \in @}]

\* How the remote answers a mutation call: with a status below 400 after
\* applying it, with a status >= 400, or not at all within the timeout.  A
\* call it does not accept gets a status >= 400.
Answers == {"ok", "status", "timeout"}

Applied(call, answer, r) == answer = "ok" /\ RemoteAccepts(call, r)

\* lines 106-115: the httpx error of a call without response, or the
\* RuntimeError _request raises for a status >= 400, its text naming the path
RequestError(call, answer) ==
  IF answer = "timeout"
  THEN [kind |-> "TimeoutException"]
  ELSE [kind |-> "RuntimeError", path |-> call.path]

\* A mutation call as the logs keep it: sent while applying a request
\* ("create") or by _apply_rollback ("rollback"), and whether it took effect.
Sent(phase, call, applied) == [phase |-> phase, call |-> call, ok |-> applied]

\* The error of a failed GET of the profile (raise_for_status).
FetchError == [kind |-> "HTTPStatusError", path |-> <<"profiles">>]

\* ------------------------------------------------------------------- state

VARIABLES
  remote,          \* the profile held by the NextDNS service
  remote0,         \* the remote profile the behaviour started from
  profile,         \* self.profile: the cached snapshot, or NoProfile
  focus_sessions,  \* self._focus_sessions: session id -> session
  focus_tasks,     \* keys of self._focus_tasks
  creq,            \* the create_focus_session call in progress
  lastCreate,      \* how the create_focus_session call ended, until the next
  nextId,          \* number of the next create_focus_session call
  rb,              \* <<session id, origin>> -> the run of the expiry task or
                   \* of a directly invoked _rollback_focus_session
  rollbackLog,     \* session id -> the remote calls issued by _apply_rollback
                   \* on behalf of _rollback_focus_session, with their outcome
  applyCount,      \* session id -> times _rollback_focus_session called
                   \* _apply_rollback
  query,           \* the get_filters_state call: waiting for its fetch, or
                   \* how the last one ended
  now,             \* datetime.now(timezone.utc), in ticks
  profile_lock,    \* self._profile_lock: locked, and the callers waiting for it
  callers,         \* caller -> its ensure_profile_loaded call
  weather,         \* the GET /weather request in progress, or how it ended
  focus_lock,      \* self._focus_lock: free, or the coroutine holding it
  devices,         \* LightsRepository.devices: the cached devices, by address
  _last_discovery, \* LightsRepository._last_discovery, in seconds
  _discovery_lock, \* LightsRepository._discovery_lock: locked, and who waits
  discoverers,     \* caller -> its discover_devices call
  monotonic,       \* time.monotonic(), in seconds
  jobs,            \* the scheduler's jobs: id -> trigger, run date and the
                   \* refresh_sunset_fade_jobs invocation that added it
  refreshers,      \* caller -> its refresh_sunset_fade_jobs invocation
  refreshCount,    \* invocations of refresh_sunset_fade_jobs so far
  wall_clock       \* datetime.now(), in 1/FadeUnitsPerSecond seconds

vars == <<remote, remote0, profile, focus_sessions, focus_tasks, creq, lastCreate,
          nextId, rb, rollbackLog, applyCount, query, now, profile_lock, callers,
          weather, focus_lock, devices, _last_discovery, _discovery_lock,
          discoverers, monotonic, jobs, refreshers, refreshCount, wall_clock>>

\* The state of the profile cache's callers, and the state of the sessions.
cacheVars == <<profile_lock, callers>>
weatherVars == <<weather>>
lightsVars == <<devices, _last_discovery, _discovery_lock, discoverers, monotonic>>
fadeVars == <<jobs, refreshers, refreshCount, wall_clock>>
sessionVars == <<focus_sessions, focus_tasks, creq, lastCreate, nextId, rb,
                 rollbackLog, applyCount, query, now, focus_lock>>

Snapshot(r) == [loaded |-> TRUE, data |-> r]

\* self._focus_lock (lines 73-76) between two steps: free, or held by the
\* coroutine that entered an `async with lock` block and has not left it
FreeLock == [locked |-> FALSE]
HeldBy(owner) == [locked |-> TRUE, by |-> owner]

held_through_apply(owner) == HeldBy(owner)

\* lines 416-422: the `async with lock` block that marks the session ends
\* before the try block that awaits _apply_rollback
release_after_mark(owner) == FreeLock

Pop(f, key) == [x \in DOMAIN f \ {key} |-> f[x]]

DurationTicks(minutes) == minutes * SecondsPerMinute * TicksPerSecond

\* ------------------------------------------- create_focus_session: helpers

duration_ok_exclusive(duration_minutes) ==
  ~(duration_minutes <= MinDurationMinutes \/ duration_minutes >= MaxDurationMinutes)

\* lines 279-280
duration_ok(duration_minutes) ==
  ~(duration_minutes < MinDurationMinutes \/ duration_minutes > MaxDurationMinutes)

\* lines 282-287
normalized_domains(domains) ==
  SortedStrings({_normalize_domain(domains[i]) : i \in 1..Len(domains)} \ {<<>>})

\* lines 303-304
requested_ids(ids) == SortedStrings(SeqToSet(ids))

\* lines 305-306: [entry_id for entry_id in requested if entry_id not in current]
unknown_categories(requested, current_categories) ==
  SelectKept(requested, SeqToSet(requested) \ DOMAIN current_categories)
unknown_services_unchecked(requested, current_services) == <<>>
unknown_services(requested, current_services) ==
  SelectKept(requested, SeqToSet(requested) \ DOMAIN current_services)

parental_payload_flags_only(request, requested_categories, requested_services) ==
  [safeSearch |-> request.safe_search,
   youtubeRestrictedMode |-> request.youtube_restricted_mode,
   blockBypass |-> request.block_bypass,
   categories |-> <<>>, services |-> <<>>]

parental_payload_default_flags(request, requested_categories, requested_services) ==
  [safeSearch |-> TRUE, youtubeRestrictedMode |-> TRUE, blockBypass |-> TRUE,
   categories |-> [i \in 1..Len(requested_categories) |->
                     [id |-> requested_categories[i], active |-> TRUE]],
   services |-> [i \in 1..Len(requested_services) |->
                   [id |-> requested_services[i], active |-> TRUE]]]

\* lines 312-320; an empty list stands for the key left out
parental_payload(request, requested_categories, requested_services) ==
  [safeSearch |-> request.safe_search,
   youtubeRestrictedMode |-> request.youtube_restricted_mode,
   blockBypass |-> request.block_bypass,
   categories |-> [i \in 1..Len(requested_categories) |->
                     [id |-> requested_categories[i], active |-> TRUE]],
   services |-> [i \in 1..Len(requested_services) |->
                   [id |-> requested_services[i], active |-> TRUE]]]

\* lines 328-329: current_categories[entry_id] and current_services[entry_id]
\* raise KeyError for an id the profile does not hold
plan_keys_known(parental_control, requested_categories, requested_services) ==
  /\ SeqToSet(requested_categories) \subseteq DOMAIN parental_control.categories
  /\ SeqToSet(requested_services) \subseteq DOMAIN parental_control.services

rollback_plan_applied(parental_control, requested_categories, requested_services) ==
  [parentalControl |->
     [safeSearch |-> parental_control.safeSearch,
      youtubeRestrictedMode |-> parental_control.youtubeRestrictedMode,
      blockBypass |-> parental_control.blockBypass],
   categories |-> [i \in 1..Len(requested_categories) |->
                     [id |-> requested_categories[i], active |-> TRUE]],
   services |-> [i \in 1..Len(requested_services) |->
                   [id |-> requested_services[i], active |-> TRUE]],
   denylist |-> <<>>]

\* lines 322-331: the plan before any mutation
rollback_plan(parental_control, requested_categories, requested_services) ==
  [parentalControl |->
     [safeSearch |-> parental_control.safeSearch,
      youtubeRestrictedMode |-> parental_control.youtubeRestrictedMode,
      blockBypass |-> parental_control.blockBypass],
   categories |-> [i \in 1..Len(requested_categories) |->
                     [id |-> requested_categories[i],
                      active |-> parental_control.categories[requested_categories[i]]]],
   services |-> [i \in 1..Len(requested_services) |->
                   [id |-> requested_services[i],
                    active |-> parental_control.services[requested_services[i]]]],
   denylist |-> <<>>]

existing_entry_none(deny_entries, domain) == {}

\* lines 339-346: current_denylist.get(domain), as the set of entries whose
\* normalized id is the domain (at most one: ids are unique)
existing_entry(deny_entries, domain) ==
  {e \in deny_entries : _normalize_domain(e.id) = domain}

deny_item_applied(deny_entries, domain) ==
  [domain |-> domain, existed |-> existing_entry(deny_entries, domain) # {},
   active |-> existing_entry(deny_entries, domain) # {}]

\* lines 349 and 353: the plan's entry for a domain
deny_item(deny_entries, domain) ==
  IF existing_entry(deny_entries, domain) # {}
  THEN [domain |-> domain, existed |-> TRUE,
        active |-> (CHOOSE e \in existing_entry(deny_entries, domain) : TRUE).active]
  ELSE [domain |-> domain, existed |-> FALSE, active |-> FALSE]

\* lines 350-354: the call sent for a domain, or none
NoCall == [method |-> "NONE", path |-> <<>>, json |-> <<>>]

deny_call_patch_only(item) ==
  IF item.existed /\ item.active THEN NoCall ELSE PatchDenylistEntry(item.domain, TRUE)

deny_call(item) ==
  IF item.existed
  THEN IF ~item.active THEN PatchDenylistEntry(item.domain, TRUE) ELSE NoCall
  ELSE CreateDenylistEntry(item.domain)

RECURSIVE deny_loop_unrecorded(_, _)
deny_loop_unrecorded(c, i) ==
  IF i > Len(c.normalized_domains) THEN [c EXCEPT !.pc = "finish"]
  ELSE LET item == deny_item(c.current_denylist, c.normalized_domains[i])
       IN IF deny_call(item) = NoCall
          THEN deny_loop_unrecorded(
                 [c EXCEPT !.rollback.denylist = Append(@, item), !.idx = i], i + 1)
          ELSE [c EXCEPT !.idx = i, !.pc = "call", !.pending = deny_call(item)]

RECURSIVE deny_loop_eager(_, _)
deny_loop_eager(c, i) ==
  IF i > Len(c.normalized_domains) THEN [c EXCEPT !.pc = "finish"]
  ELSE LET all == [j \in 1..Len(c.normalized_domains) |->
                     deny_item(c.current_denylist, c.normalized_domains[j])]
           c1 == [c EXCEPT !.rollback.denylist = all, !.idx = i]
       IN IF deny_call(all[i]) = NoCall
          THEN deny_loop_eager(c1, i + 1)
          ELSE [c1 EXCEPT !.pc = "call", !.pending = deny_call(all[i])]

\* lines 345-354: the loop from domain i up to its next remote call
\* (pc "call") or to its end (pc "finish")
RECURSIVE deny_loop(_, _)
deny_loop(c, i) ==
  IF i > Len(c.normalized_domains) THEN [c EXCEPT !.pc = "finish"]
  ELSE LET item == deny_item(c.current_denylist, c.normalized_domains[i])
           c1 == [c EXCEPT !.rollback.denylist = Append(@, item), !.idx = i]
       IN IF deny_call(item) = NoCall
          THEN deny_loop(c1, i + 1)
          ELSE [c1 EXCEPT !.pc = "call", !.pending = deny_call(item)]


\* ------------------------------------------------------------ _apply_rollback

_apply_rollback_delete(rollback) ==
  <<PatchParentalControl(
      [safeSearch |-> rollback.parentalControl.safeSearch,
       youtubeRestrictedMode |-> rollback.parentalControl.youtubeRestrictedMode,
       blockBypass |-> rollback.parentalControl.blockBypass,
       categories |-> rollback.categories,
       services |-> rollback.services])>>
  \o [j \in 1..Len(rollback.denylist) |-> DeleteDenylistEntry(rollback.denylist[j].domain)]

_apply_rollback_parental_only(rollback) ==
  <<PatchParentalControl(
      [safeSearch |-> rollback.parentalControl.safeSearch,
       youtubeRestrictedMode |-> rollback.parentalControl.youtubeRestrictedMode,
       blockBypass |-> rollback.parentalControl.blockBypass,
       categories |-> rollback.categories,
       services |-> rollback.services])>>

\* lines 439-470: the calls _apply_rollback issues for a plan, in order
_apply_rollback(rollback) ==
  <<PatchParentalControl(
      [safeSearch |-> rollback.parentalControl.safeSearch,
       youtubeRestrictedMode |-> rollback.parentalControl.youtubeRestrictedMode,
       blockBypass |-> rollback.parentalControl.blockBypass,
       categories |-> rollback.categories,
       services |-> rollback.services])>>
  \o [j \in 1..Len(rollback.denylist) |->
        IF rollback.denylist[j].existed
        THEN PatchDenylistEntry(rollback.denylist[j].domain, rollback.denylist[j].active)
        ELSE DeleteDenylistEntry(rollback.denylist[j].domain)]

\* ------------------------------------------------------ create_focus_session

IdleReq == [pc |-> "idle"]
NoCreate == [kind |-> "none"]

\* The locals of a call after lines 279-287.
NewReq(id, request) ==
  [pc |-> "fetch1", id |-> id, request |-> request,
   normalized_domains |-> normalized_domains(request.domains),
   requested_categories |-> requested_ids(request.category_ids),
   requested_services |-> requested_ids(request.service_ids),
   fetched |-> FALSE, pre |-> NoProfile, refreshed |-> NoProfile,
   rollback |-> <<>>, current_denylist |-> {}, idx |-> 0, pending |-> NoCall,
   exc |-> NoError, k |-> 0, rollback_exc |-> NoError, calls |-> <<>>]

\* How a call ended: what it raised or returned, and for the properties
\* below what it was asked, the remote profile its first fetch read (pre),
\* the profile and the deny-list its second fetch read (refreshed,
\* current_denylist), the exception
\* its handler caught (exc), the exception of the compensating rollback
\* (rollback_exc) and the mutation calls it sent.
Outcome(c, kind, error, returned) ==
  [kind |-> kind, id |-> c.id, request |-> c.request, fetched |-> c.fetched,
   pre |-> c.pre, refreshed |-> c.refreshed, current_denylist |-> c.current_denylist,
   error |-> error, returned |-> returned, exc |-> c.exc,
   rollback_exc |-> c.rollback_exc, rollback |-> c.rollback, calls |-> c.calls]

\* The call ends by raising error.
Raise(c, error) ==
  /\ lastCreate' = Outcome(c, error.kind, error, <<>>)
  /\ creq' = IdleReq

\* line 360: the error raised after the compensating rollback
create_failed(c) ==
  [kind |-> "RuntimeError", text |-> "Failed to create focus session",
   describes |-> {[failure |-> "original", exc |-> c.exc]}]

\* lines 362-381
new_session(c) ==
  [id |-> c.id, status |-> "active", created_at |-> now,
   expires_at |-> now + DurationTicks(c.request.duration_minutes),
   duration_minutes |-> c.request.duration_minutes,
   targets |-> [domains |-> c.normalized_domains,
                category_ids |-> c.requested_categories,
                service_ids |-> c.requested_services,
                safeSearch |-> c.request.safe_search,
                youtubeRestrictedMode |-> c.request.youtube_restricted_mode,
                blockBypass |-> c.request.block_bypass],
   rollback |-> c.rollback, error |-> NoError]

\* lines 388-395
returned(session) ==
  [session_id |-> session.id, status |-> "active", created_at |-> session.created_at,
   expires_at |-> session.expires_at, duration_minutes |-> session.duration_minutes,
   targets |-> session.targets]

\* A run of the expiry task or of _rollback_focus_session; after holds, for
\* the properties below, the sessions whose _apply_rollback had ended when
\* this run called _apply_rollback.
NoRun ==
  [pc |-> "none", k |-> 0, wake |-> 0, plan |-> <<>>, raised |-> NoError, after |-> {}]

\* lines 362-395: register the session, start its expiry task, return
Register(c) ==
  /\ focus_sessions' = focus_sessions @@ (c.id :> new_session(c))
  /\ focus_tasks' = focus_tasks \cup {c.id}
  /\ rb' = [rb EXCEPT ![<<c.id, "expiry">>] = [NoRun EXCEPT !.pc = "created"]]
  /\ lastCreate' = Outcome(c, "ok", NoError, returned(new_session(c)))
  /\ creq' = IdleReq
  /\ focus_lock = FreeLock
  /\ focus_lock' = FreeLock

\* The deny-list loop has run up to its next call or to its end.
Continue(c) ==
  IF c.pc = "finish"
  THEN Register(c)
  ELSE /\ creq' = c
       /\ UNCHANGED <<focus_sessions, focus_tasks, rb, lastCreate, focus_lock>>

\* lines 267-287: the call starts; a bad duration ends it at once
CreateStartWithin(request, calls) ==
  /\ creq.pc = "idle"
  /\ nextId <= calls
  /\ nextId' = nextId + 1
  /\ IF duration_ok(request.duration_minutes)
     THEN /\ creq' = NewReq(nextId, request)
          /\ lastCreate' = NoCreate
     ELSE Raise(NewReq(nextId, request),
                [kind |-> "ValueError", text |-> "duration_minutes must be between 5 and 1440"])
  /\ UNCHANGED <<fadeVars, lightsVars, weatherVars, cacheVars, focus_lock, remote, remote0, profile, focus_sessions, focus_tasks, rb,
                 rollbackLog, applyCount, query, now>>

CreateStart(request) == CreateStartWithin(request, MaxCreates)

\* lines 289-335: the forced fetch answers (a failure is raised as it is);
\* validation of the ids; payload and plan; the parental-control PATCH is sent
CreateFetch1 ==
  /\ creq.pc = "fetch1"
  /\ \E ok \in BOOLEAN :
       IF ~ok
       THEN /\ Raise(creq, FetchError)
            /\ UNCHANGED profile
       ELSE /\ profile' = Snapshot(remote)
            /\ LET parental_control == remote.parentalControl
                   c == [creq EXCEPT !.fetched = TRUE, !.pre = remote]
                   unknown_c == unknown_categories(c.requested_categories,
                                                   parental_control.categories)
                   unknown_s == unknown_services(c.requested_services,
                                                 parental_control.services)
               IN IF unknown_c # <<>>
                  THEN Raise(c, [kind |-> "ValueError", text |-> "Unknown categories",
                                 ids |-> unknown_c])
                  ELSE IF unknown_s # <<>>
                  THEN Raise(c, [kind |-> "ValueError", text |-> "Unknown services",
                                 ids |-> unknown_s])
                  ELSE IF ~plan_keys_known(parental_control, c.requested_categories,
                                           c.requested_services)
                  THEN Raise(c, [kind |-> "KeyError"])
                  ELSE /\ creq' =
                            [c EXCEPT
                               !.pc = "patch",
                               !.pending = PatchParentalControl(
                                  parental_payload(c.request, c.requested_categories,
                                                   c.requested_services)),
                               !.rollback = rollback_plan(parental_control,
                                                          c.requested_categories,
                                                          c.requested_services)]
                       /\ UNCHANGED lastCreate
  /\ UNCHANGED <<fadeVars, lightsVars, weatherVars, cacheVars, focus_lock, remote, remote0, focus_sessions, focus_tasks, nextId, rb,
                 rollbackLog, applyCount, query, now>>

\* lines 333-337: the parental-control PATCH answers
CreatePatch ==
  /\ creq.pc = "patch"
  /\ \E answer \in Answers :
       LET call == creq.pending
           applied == Applied(call, answer, remote)
           c == [creq EXCEPT !.calls = Append(@, Sent("create", call, applied))]
       IN IF applied
          THEN /\ remote' = RemoteAfter(call, remote)
               /\ creq' = [c EXCEPT !.pc = "fetch2", !.pending = NoCall]
          ELSE /\ remote' = remote
               /\ creq' = [c EXCEPT !.pc = "comp", !.k = 1, !.pending = NoCall,
                                    !.exc = RequestError(call, answer)]
  /\ UNCHANGED <<fadeVars, lightsVars, weatherVars, cacheVars, focus_lock, remote0, profile, focus_sessions, focus_tasks, lastCreate, nextId,
                 rb, rollbackLog, applyCount, query, now>>

refreshed_profile_stale(pre, r) == Snapshot(pre)

\* line 337: the profile the second forced fetch returns
refreshed_profile(pre, r) == Snapshot(r)

\* lines 337-354: the second forced fetch answers; the deny-list loop starts
CreateFetch2 ==
  /\ creq.pc = "fetch2"
  /\ \E ok \in BOOLEAN :
       IF ~ok
       THEN /\ creq' = [creq EXCEPT !.pc = "comp", !.k = 1, !.exc = FetchError]
            /\ UNCHANGED <<profile, focus_sessions, focus_tasks, rb, lastCreate, focus_lock>>
       ELSE /\ profile' = Snapshot(remote)
            /\ LET refreshed == refreshed_profile(creq.pre, remote)
               IN Continue(deny_loop([creq EXCEPT
                                        !.refreshed = refreshed,
                                        !.current_denylist = refreshed.data.denylist,
                                        !.pc = "deny"], 1))
  /\ UNCHANGED <<fadeVars, lightsVars, weatherVars, cacheVars, remote, remote0, nextId, rollbackLog, applyCount, query, now>>

\* lines 345-354: the PATCH or POST of a domain answers; the loop goes on
CreateDeny ==
  /\ creq.pc = "call"
  /\ \E answer \in Answers :
       LET call == creq.pending
           applied == Applied(call, answer, remote)
           c == [creq EXCEPT !.calls = Append(@, Sent("create", call, applied)),
                             !.pending = NoCall]
       IN IF applied
          THEN /\ remote' = RemoteAfter(call, remote)
               /\ Continue(deny_loop([c EXCEPT !.pc = "deny"], c.idx + 1))
          ELSE /\ remote' = remote
               /\ creq' = [c EXCEPT !.pc = "comp", !.k = 1,
                                    !.exc = RequestError(call, answer)]
               /\ UNCHANGED <<focus_sessions, focus_tasks, rb, lastCreate, focus_lock>>
  /\ UNCHANGED <<fadeVars, lightsVars, weatherVars, cacheVars, remote0, profile, nextId, rollbackLog, applyCount, query, now>>

\* lines 355-360: one call of the compensating _apply_rollback answers; a
\* failure ends _apply_rollback and is passed over; the create call raises
CreateCompensate ==
  /\ creq.pc = "comp"
  /\ \E answer \in Answers :
       LET plan_calls == _apply_rollback(creq.rollback)
           call == plan_calls[creq.k]
           applied == Applied(call, answer, remote)
           c == [creq EXCEPT !.calls = Append(@, Sent("rollback", call, applied))]
       IN IF applied
          THEN /\ remote' = RemoteAfter(call, remote)
               /\ IF c.k < Len(plan_calls)
                  THEN /\ creq' = [c EXCEPT !.k = @ + 1]
                       /\ UNCHANGED lastCreate
                  ELSE Raise(c, create_failed(c))
          ELSE /\ remote' = remote
               /\ LET c1 == [c EXCEPT !.rollback_exc = RequestError(call, answer)]
                  IN Raise(c1, create_failed(c1))
  /\ UNCHANGED <<fadeVars, lightsVars, weatherVars, cacheVars, focus_lock, remote0, profile, focus_sessions, focus_tasks, nextId, rb,
                 rollbackLog, applyCount, query, now>>

\* ---------------------------------------------------- _rollback_focus_session

still_present(sessions, session_id) == session_id \in DOMAIN sessions

\* The sessions whose _apply_rollback, called by _rollback_focus_session,
\* has returned or raised.
Ended ==
  {i \in SessionIds :
     \E origin \in Origins : /\ rb[<<i, origin>>].pc \in {"refresh", "done"}
                              /\ rb[<<i, origin>>].k > 0}

\* line 418, negated: the session is in the store and active
still_active(sessions, session_id) ==
  /\ session_id \in DOMAIN sessions
  /\ sessions[session_id].status = "active"

RollbackEnter_unmarked(inv) ==
  IF ~still_active(focus_sessions, inv[1])
  THEN /\ focus_lock = FreeLock
       /\ focus_lock' = FreeLock
       /\ rb' = [rb EXCEPT ![inv].pc = "done"]
       /\ UNCHANGED <<focus_sessions, applyCount>>
  ELSE /\ focus_sessions' = focus_sessions
       /\ rb' = [rb EXCEPT ![inv] = [@ EXCEPT !.pc = "applying", !.k = 1,
                                              !.plan = focus_sessions[inv[1]].rollback,
                                              !.after = Ended]]
       /\ applyCount' = [applyCount EXCEPT ![inv[1]] = @ + 1]
       /\ focus_lock = FreeLock
       /\ focus_lock' = release_after_mark(inv)

RollbackEnter_dropping(inv) ==
  IF ~still_active(focus_sessions, inv[1])
  THEN /\ focus_lock = FreeLock
       /\ focus_lock' = FreeLock
       /\ rb' = [rb EXCEPT ![inv].pc = "done"]
       /\ focus_sessions' = Pop(focus_sessions, inv[1])
       /\ UNCHANGED applyCount
  ELSE /\ focus_sessions' = [focus_sessions EXCEPT ![inv[1]].status = "rolling_back"]
       /\ rb' = [rb EXCEPT ![inv] = [@ EXCEPT !.pc = "applying", !.k = 1,
                                              !.plan = focus_sessions[inv[1]].rollback,
                                              !.after = Ended]]
       /\ applyCount' = [applyCount EXCEPT ![inv[1]] = @ + 1]
       /\ focus_lock = FreeLock
       /\ focus_lock' = release_after_mark(inv)

\* lines 414-423: under the lock, return unless the session is active, else
\* mark it rolling_back; then _apply_rollback sends its first call
RollbackEnter(inv) ==
  IF ~still_active(focus_sessions, inv[1])
  THEN /\ focus_lock = FreeLock
       /\ focus_lock' = FreeLock
       /\ rb' = [rb EXCEPT ![inv].pc = "done"]
       /\ UNCHANGED <<focus_sessions, applyCount>>
  ELSE /\ focus_sessions' = [focus_sessions EXCEPT ![inv[1]].status = "rolling_back"]
       /\ rb' = [rb EXCEPT ![inv] = [@ EXCEPT !.pc = "applying", !.k = 1,
                                              !.plan = focus_sessions[inv[1]].rollback,
                                              !.after = Ended]]
       /\ applyCount' = [applyCount EXCEPT ![inv[1]] = @ + 1]
       /\ focus_lock = FreeLock
       /\ focus_lock' = release_after_mark(inv)

pop_task_kept(tasks, session_id) == tasks

\* lines 429 and 434: self._focus_tasks.pop(session_id, None)
pop_task(tasks, session_id) == tasks \ {session_id}

rollback_failed_plan_cleared(sessions, session_id, exc) ==
  IF session_id \in DOMAIN sessions
  THEN [sessions EXCEPT ![session_id].status = "rollback_failed",
                        ![session_id].error = exc,
                        ![session_id].rollback.denylist = <<>>]
  ELSE sessions

rollback_failed_unmarked(sessions, session_id, exc) == sessions

rollback_failed_dropped(sessions, session_id, exc) == Pop(sessions, session_id)

\* lines 424-430: _apply_rollback raised
rollback_failed(sessions, session_id, exc) ==
  IF session_id \in DOMAIN sessions
  THEN [sessions EXCEPT ![session_id].status = "rollback_failed",
                        ![session_id].error = exc]
  ELSE sessions

\* lines 422-434: one call of _apply_rollback answers.  The first failure
\* ends _apply_rollback: the session is marked rollback_failed and the
\* procedure returns.  After the last call the session and its task entry
\* are removed and the forced refresh starts.
RollbackStep(inv) ==
  /\ rb[inv].pc = "applying"
  /\ \E answer \in Answers :
       LET session_id == inv[1]
           plan_calls == _apply_rollback(rb[inv].plan)
           call == plan_calls[rb[inv].k]
           applied == Applied(call, answer, remote)
       IN /\ rollbackLog' = [rollbackLog EXCEPT
                               ![session_id] = Append(@, Sent("rollback", call, applied))]
          /\ IF applied
             THEN /\ remote' = RemoteAfter(call, remote)
                  /\ IF rb[inv].k < Len(plan_calls)
                     THEN /\ rb' = [rb EXCEPT ![inv].k = @ + 1]
                          /\ UNCHANGED <<focus_sessions, focus_tasks, focus_lock>>
                     ELSE /\ focus_lock = FreeLock
                          /\ focus_lock' = FreeLock
                          /\ focus_sessions' = Pop(focus_sessions, session_id)
                          /\ focus_tasks' = pop_task(focus_tasks, session_id)
                          /\ rb' = [rb EXCEPT ![inv].pc = "refresh"]
             ELSE /\ remote' = remote
                  /\ focus_lock = FreeLock
                  /\ focus_lock' = FreeLock
                  /\ focus_sessions' = rollback_failed(focus_sessions, session_id,
                                                       RequestError(call, answer))
                  /\ focus_tasks' = pop_task(focus_tasks, session_id)
                  /\ rb' = [rb EXCEPT ![inv].pc = "done"]
  /\ UNCHANGED <<fadeVars, lightsVars, weatherVars, cacheVars, remote0, profile, creq, lastCreate, nextId, applyCount, query, now>>

\* line 436: the forced refresh after a successful rollback answers
RollbackRefresh(inv) ==
  /\ rb[inv].pc = "refresh"
  /\ \E ok \in BOOLEAN :
       /\ profile' = IF ok THEN Snapshot(remote) ELSE profile
       /\ rb' = [rb EXCEPT ![inv].pc = "done",
                           ![inv].raised = IF ok THEN NoError ELSE FetchError]
  /\ UNCHANGED <<fadeVars, lightsVars, weatherVars, cacheVars, focus_lock, remote, remote0, focus_sessions, focus_tasks, creq, lastCreate,
                 nextId, rollbackLog, applyCount, query, now>>

\* _rollback_focus_session(session_id) invoked directly, once for the id of
\* any session a create call has registered
ManualRollback(session_id) ==
  /\ rb[<<session_id, "expiry">>].pc # "none"
  /\ rb[<<session_id, "manual">>].pc = "none"
  /\ RollbackEnter(<<session_id, "manual">>)
  /\ UNCHANGED <<fadeVars, lightsVars, weatherVars, cacheVars, remote, remote0, profile, focus_tasks, creq, lastCreate, nextId,
                 rollbackLog, query, now>>

\* ------------------------------------------------------ _expire_focus_session

expiry_delay_early(expires_at, t) == IF expires_at - t > 1 THEN expires_at - t - 1 ELSE 0

\* line 408
expiry_delay(expires_at, t) == IF expires_at - t > 0 THEN expires_at - t ELSE 0

\* lines 397-412: the task starts: it reads the session under the lock, and
\* sleeps for the delay, or goes on to the rollback when there is none
ExpireStart(session_id) ==
  LET inv == <<session_id, "expiry">>
  IN /\ rb[inv].pc = "created"
     /\ focus_lock = FreeLock
     /\ IF session_id \notin DOMAIN focus_sessions
        THEN /\ rb' = [rb EXCEPT ![inv].pc = "done"]
             /\ UNCHANGED <<focus_sessions, applyCount, focus_lock>>
        ELSE LET delay == expiry_delay(focus_sessions[session_id].expires_at, now)
             IN IF delay > 0
                THEN /\ rb' = [rb EXCEPT ![inv].pc = "sleeping", ![inv].wake = now + delay]
                     /\ UNCHANGED <<focus_sessions, applyCount, focus_lock>>
                ELSE RollbackEnter(inv)
     /\ UNCHANGED <<fadeVars, lightsVars, weatherVars, cacheVars, remote, remote0, profile, focus_tasks, creq, lastCreate, nextId,
                    rollbackLog, query, now>>

\* lines 410-412: asyncio.sleep(delay) is over
ExpireWake(session_id) ==
  LET inv == <<session_id, "expiry">>
  IN /\ rb[inv].pc = "sleeping"
     /\ now >= rb[inv].wake
     /\ RollbackEnter(inv)
     /\ UNCHANGED <<fadeVars, lightsVars, weatherVars, cacheVars, remote, remote0, profile, focus_tasks, creq, lastCreate, nextId,
                    rollbackLog, query, now>>

\* lines 409-410: time passes until asyncio.sleep(delay) of a sleeping expiry
\* task is over, however far away its expiry is
SleepOver(session_id) ==
  LET inv == <<session_id, "expiry">>
  IN /\ rb[inv].pc = "sleeping"
     /\ now < rb[inv].wake
     /\ now' = rb[inv].wake
     /\ UNCHANGED <<fadeVars, lightsVars, weatherVars, cacheVars, focus_lock, remote, remote0, profile, focus_sessions, focus_tasks,
                    creq, lastCreate, nextId, rb, rollbackLog, applyCount, query>>

\* ---------------------------------------------------------- get_filters_state

remaining_seconds_flipped(expires_at, t) ==
  IF (t - expires_at) \div TicksPerSecond > 0
  THEN (t - expires_at) \div TicksPerSecond
  ELSE 0

\* line 247
remaining_seconds(expires_at, t) ==
  IF (expires_at - t) \div TicksPerSecond > 0
  THEN (expires_at - t) \div TicksPerSecond
  ELSE 0

DigitChars == <<"0", "1", "2", "3", "4", "5", "6", "7", "8", "9">>

\* n in decimal, zero-padded to width digits
RECURSIVE Digits(_, _)
Digits(n, width) ==
  IF width = 0 THEN <<>>
  ELSE Digits(n \div 10, width - 1) \o <<DigitChars[(n % 10) + 1]>>

\* line 251, datetime.isoformat() of an aware UTC time: the date and time
\* fields, all of fixed width (here the seconds since the start, six
\* digits), the microseconds as ".ffffff" unless they are zero, and the
\* offset
isoformat(t) ==
  LET second == t \div TicksPerSecond
      microsecond == ((t % TicksPerSecond) * 1000000) \div TicksPerSecond
  IN Digits(second, 6)
       \o (IF microsecond = 0 THEN <<>> ELSE <<".">> \o Digits(microsecond, 6))
       \o <<"+", "0", "0", ":", "0", "0">>

\* lines 243-256: the entry listed for a session
listed(session, t) ==
  [session_id |-> session.id, expires_at |-> isoformat(session.expires_at),
   duration_minutes |-> session.duration_minutes,
   remaining_seconds |-> remaining_seconds(session.expires_at, t)]

is_listed_not_removed(session) == session.status # "removed"

\* line 244: the sessions that are listed
is_listed(session) == session.status = "active"

RECURSIVE store_order(_, _)
store_order(sessions, ids) ==
  IF ids = {} THEN <<>>
  ELSE LET first == CHOOSE i \in ids : \A j \in ids : i <= j
       IN <<first>> \o store_order(sessions, ids \ {first})

\* line 264: sorted(..., key=item["expires_at"]): by the isoformat strings,
\* stable over the store's order (the order of insertion, that of the ids)
RECURSIVE sorted_by_expiry(_, _)
sorted_by_expiry(sessions, ids) ==
  IF ids = {} THEN <<>>
  ELSE LET key(i) == isoformat(sessions[i].expires_at)
           first == CHOOSE i \in ids :
                      \A j \in ids \ {i} :
                        \/ StrLess(key(i), key(j))
                        \/ /\ key(i) = key(j)
                           /\ i < j
       IN <<first>> \o sorted_by_expiry(sessions, ids \ {first})

focusSessions(sessions, t) ==
  LET ids == {i \in DOMAIN sessions : is_listed(sessions[i])}
      order == sorted_by_expiry(sessions, ids)
  IN [n \in 1..Len(order) |-> listed(sessions[order[n]], t)]

NoQuery == [pc |-> "idle"]

\* lines 235-236: get_filters_state is called and sends its forced fetch
QueryStart ==
  /\ query.pc # "fetch"
  /\ query' = [pc |-> "fetch"]
  /\ UNCHANGED <<fadeVars, lightsVars, weatherVars, cacheVars, focus_lock, remote, remote0, profile, focus_sessions, focus_tasks, creq,
                 lastCreate, nextId, rb, rollbackLog, applyCount, now>>

\* lines 236-265: the fetch answers.  When it failed the call raises; else
\* the clock is read, the sessions are listed under the lock and the call
\* returns, all without suspending.
QueryReturn ==
  /\ query.pc = "fetch"
  /\ \E ok \in BOOLEAN :
       IF ok
       THEN /\ profile' = Snapshot(remote)
            /\ focus_lock = FreeLock
            /\ focus_lock' = FreeLock
            /\ query' = [pc |-> "returned", now |-> now,
                         focusSessions |-> focusSessions(focus_sessions, now)]
       ELSE /\ profile' = profile
            /\ query' = [pc |-> "raised", error |-> FetchError]
            /\ UNCHANGED focus_lock
  /\ UNCHANGED <<fadeVars, lightsVars, weatherVars, cacheVars, remote, remote0, focus_sessions, focus_tasks, creq, lastCreate,
                 nextId, rb, rollbackLog, applyCount, now>>

\* ------------------------------------------------------ ensure_profile_loaded

Callers == 1..MaxCallers

IdleCaller ==
  [pc |-> "idle", force_refresh |-> FALSE, joined |-> 0, fetches |-> 0,
   result |-> NoProfile]

\* The callers whose _fetch_profile is waiting for one of its two GETs.
Loading == {c \in Callers : callers[c].pc \in {"get_profiles", "get_profile"}}

lock_free_always(lock) == TRUE

\* line 68, asyncio.Lock.acquire: the lock is taken at once when it is not
\* locked and nobody waits for it
lock_free(lock) == ~lock.locked /\ lock.waiters = <<>>

\* lines 69-71 with the lock acquired by c: _fetch_profile sends GET /profiles
\* when the refresh is forced or nothing is cached, else the cached profile
\* is returned and the lock released
HoldLock(c, cs, waiters) ==
  IF cs[c].force_refresh \/ profile = NoProfile
  THEN /\ callers' = [cs EXCEPT ![c].pc = "get_profiles", ![c].fetches = @ + 1]
       /\ profile_lock' = [locked |-> TRUE, waiters |-> waiters]
  ELSE /\ callers' = [cs EXCEPT ![c].pc = "returned", ![c].result = profile]
       /\ profile_lock' = [locked |-> FALSE, waiters |-> waiters]

\* lines 64-71: a caller invokes ensure_profile_loaded(force_refresh); it goes
\* on with the lock, or waits for it.  joined is the caller whose refresh is
\* loading at this moment (0: none).
ensure_profile_loaded(c, force_refresh) ==
  /\ callers[c].pc = "idle"
  /\ LET cs == [callers EXCEPT
                  ![c].force_refresh = force_refresh,
                  ![c].joined = IF Loading = {} THEN 0 ELSE CHOOSE l \in Loading : TRUE]
     IN IF lock_free(profile_lock)
        THEN HoldLock(c, cs, profile_lock.waiters)
        ELSE /\ callers' = [cs EXCEPT ![c].pc = "waiting"]
             /\ profile_lock' = [profile_lock EXCEPT !.waiters = Append(@, c)]
  /\ UNCHANGED <<fadeVars, lightsVars, weatherVars, sessionVars, remote, remote0, profile>>

\* line 68: the lock was released and c is the first waiter: it acquires
LockWake(c) ==
  /\ callers[c].pc = "waiting"
  /\ ~profile_lock.locked
  /\ profile_lock.waiters # <<>>
  /\ Head(profile_lock.waiters) = c
  /\ HoldLock(c, callers, Tail(profile_lock.waiters))
  /\ UNCHANGED <<fadeVars, lightsVars, weatherVars, sessionVars, remote, remote0, profile>>

\* line 52: the list of profiles is empty
NoProfilesError == [kind |-> "RuntimeError", text |-> "No NextDNS profiles returned"]

\* lines 48-56: GET /profiles answers: with the list of profiles, with a
\* status >= 400, or with an empty list; a failure leaves _fetch_profile and
\* the lock block
GetProfiles(c) ==
  /\ callers[c].pc = "get_profiles"
  /\ \E answer \in {"ok", "status", "empty"} :
       IF answer = "ok"
       THEN /\ callers' = [callers EXCEPT ![c].pc = "get_profile"]
            /\ UNCHANGED profile_lock
       ELSE /\ callers' = [callers EXCEPT
                             ![c].pc = "raised",
                             ![c].result = IF answer = "status" THEN FetchError
                                                               ELSE NoProfilesError]
            /\ profile_lock' = [profile_lock EXCEPT !.locked = FALSE]
  /\ UNCHANGED <<fadeVars, lightsVars, weatherVars, sessionVars, remote, remote0, profile>>

profile_after_reset(ok, r, cached) == IF ok THEN Snapshot(r) ELSE NoProfile

\* lines 58-62: self.profile is assigned after raise_for_status
profile_after(ok, r, cached) == IF ok THEN Snapshot(r) ELSE cached

\* lines 58-71: GET of the profile answers; the profile is cached and
\* returned, or the failure raised; the lock is released
GetProfile(c) ==
  /\ callers[c].pc = "get_profile"
  /\ \E ok \in BOOLEAN :
       /\ profile' = profile_after(ok, remote, profile)
       /\ callers' = [callers EXCEPT
                        ![c].pc = IF ok THEN "returned" ELSE "raised",
                        ![c].result = IF ok THEN Snapshot(remote) ELSE FetchError]
  /\ profile_lock' = [profile_lock EXCEPT !.locked = FALSE]
  /\ UNCHANGED <<fadeVars, lightsVars, weatherVars, sessionVars, remote, remote0>>

\* -------------------------------------------------------------------- weather
\* WeatherRepository (src/domains/weather/repository.py) behind the route
\* GET /weather (src/domains/weather/controller.py).

\* "Nashville, TN"
DEFAULT_LOCATION ==
  <<"N", "a", "s", "h", "v", "i", "l", "l", "e", ",", " ", "T", "N">>

Comma == ","

\* str.split(): the words between runs of whitespace
RECURSIVE split(_)
split(s) ==
  LET t == LStrip(s)
  IN IF t = <<>> THEN <<>>
     ELSE LET stops == {i \in 1..Len(t) : t[i] = Space}
              n == IF stops = {} THEN Len(t) + 1
                   ELSE CHOOSE i \in stops : \A j \in stops : i <= j
          IN <<SubSeq(t, 1, n - 1)>> \o split(SubSeq(t, n, Len(t)))

\* " ".join(words)
RECURSIVE join(_)
join(words) ==
  IF words = <<>> THEN <<>>
  ELSE IF Len(words) = 1 THEN words[1]
  ELSE words[1] \o <<Space>> \o join(Tail(words))

\* s.replace(",", " ")
replace_commas(s) == [i \in 1..Len(s) |-> IF s[i] = Comma THEN Space ELSE s[i]]

\* s.split(",", maxsplit=1)[0]
before_comma(s) ==
  LET commas == {i \in 1..Len(s) : s[i] = Comma}
  IN IF commas = {} THEN s
     ELSE SubSeq(s, 1, (CHOOSE i \in commas : \A j \in commas : i <= j) - 1)

\* lines 67-70
_normalize_location(location) ==
  IF Strip(location) # <<>> THEN Strip(location) ELSE DEFAULT_LOCATION

\* lines 77-80: _add(candidate)
_add(queries, candidate) ==
  LET value == join(split(Strip(candidate)))
  IN IF value # <<>> /\ value \notin SeqToSet(queries) THEN Append(queries, value)
     ELSE queries

\* lines 72-89
_location_queries(location) ==
  LET normalized == _normalize_location(location)
      two == _add(_add(<<>>, normalized), replace_commas(normalized))
  IN IF Comma \in SeqToSet(normalized)
     THEN _add(two, Strip(before_comma(normalized)))
     ELSE two

\* The locations and unit systems the route is called with.
Locations ==
  { <<"P">>,
    <<"A", ",", "T">>,
    <<" ", "P", " ", " ", "Q", ",">>,
    <<" ">>,
    DEFAULT_LOCATION }

Units == {"imperial", "metric"}

\* How the geocoding service answers a query: with a result, with a result
\* that lacks latitude or longitude, with no result, with a status >= 400,
\* or not at all within the timeout.
GeocodeAnswers == {"found", "incomplete", "none", "status", "timeout"}

\* How the forecast service answers: with the forecast, with a forecast
\* without any temperature, with a status >= 400, with a body that is not
\* JSON, or not at all within the timeout.
ForecastAnswers == {"ok", "incomplete", "status", "invalid", "timeout"}

IdleWeather == [pc |-> "idle"]

\* lines 110-121 and 155-162, 212-213: the exceptions of the repository
WeatherError(text) == [kind |-> "RuntimeError", text |-> text]
WeatherTimeout == [kind |-> "TimeoutException"]

route_response_unhandled(outcome) ==
  IF outcome.kind = "returned"
  THEN [status_code |-> 200,
        body |-> [action |-> "weather", status |-> "ok", weather |-> outcome.weather]]
  ELSE [status_code |-> 500, detail |-> "Internal Server Error"]

\* controller.py lines 12-16: the response of the route for what the handler
\* returned or raised; an exception that is no RuntimeError is not caught
route_response(outcome) ==
  IF outcome.kind = "returned"
  THEN [status_code |-> 200,
        body |-> [action |-> "weather", status |-> "ok", weather |-> outcome.weather]]
  ELSE IF outcome.kind = "RuntimeError"
  THEN [status_code |-> 502, detail |-> outcome.text]
  ELSE [status_code |-> 500, detail |-> "Internal Server Error"]

\* The handler returns or raises, and the route responds.
Respond(w, outcome) ==
  weather' = [pc |-> "responded", location |-> w.location, units |-> w.units,
              asked |-> w.asked, outcome |-> outcome, response |-> route_response(outcome)]

start_fallback_unflagged(w) ==
  [w EXCEPT !.phase = "default", !.queries = _location_queries(DEFAULT_LOCATION), !.i = 1]

\* lines 148-150: no query of the requested location had a result
start_fallback(w) ==
  [w EXCEPT !.phase = "default", !.fallback_used = TRUE,
            !.queries = _location_queries(DEFAULT_LOCATION), !.i = 1]

\* controller.py lines 10-13, repository.py lines 174-178 and 138-144: the
\* route is called; get_weather finds the units supported and
\* resolve_location sends the first geocoding query
GetWeather(location, units) ==
  /\ weather.pc \in {"idle", "responded"}
  /\ weather' = [pc |-> "geocode", location |-> location, units |-> units,
                 requested_location |-> _normalize_location(location),
                 phase |-> "requested", fallback_used |-> FALSE,
                 queries |-> _location_queries(_normalize_location(location)),
                 i |-> 1, asked |-> <<>>]
  /\ UNCHANGED <<fadeVars, lightsVars, cacheVars, sessionVars, remote, remote0, profile>>

\* lines 123-181: a geocoding query answers.  Without a result the next
\* query is sent, that of the default location after the last one of the
\* requested location; with a result the forecast is requested.
Geocode ==
  /\ weather.pc = "geocode"
  /\ \E answer \in GeocodeAnswers :
       LET w == [weather EXCEPT
                   !.asked = Append(@, [query |-> weather.queries[weather.i],
                                        answer |-> answer])]
       IN CASE answer = "status" ->
                 Respond(w, WeatherError("Weather provider request failed"))
            [] answer = "timeout" -> Respond(w, WeatherTimeout)
            [] answer = "incomplete" ->
                 Respond(w, WeatherError(
                   "Weather provider geocoding returned incomplete coordinates."))
            [] answer = "found" -> weather' = [w EXCEPT !.pc = "forecast"]
            [] answer = "none" ->
                 IF w.i < Len(w.queries)
                 THEN weather' = [w EXCEPT !.i = @ + 1]
                 ELSE IF w.phase = "requested"
                 THEN weather' = start_fallback(w)
                 ELSE Respond(w, WeatherError(
                        "Unable to resolve location from weather provider."))
  /\ UNCHANGED <<fadeVars, lightsVars, cacheVars, sessionVars, remote, remote0, profile>>

\* lines 181-242 and controller.py lines 14-16: the forecast request answers
Forecast ==
  /\ weather.pc = "forecast"
  /\ \E answer \in ForecastAnswers :
       Respond(weather,
         CASE answer = "ok" ->
                [kind |-> "returned",
                 weather |-> [requested_location |-> weather.requested_location,
                              fallback_used |-> weather.fallback_used,
                              units |-> weather.units]]
           [] answer = "incomplete" ->
                WeatherError("Weather provider returned incomplete forecast data.")
           [] answer = "status" -> WeatherError("Weather provider request failed")
           [] answer = "invalid" -> WeatherError("Weather provider returned invalid JSON")
           [] answer = "timeout" -> WeatherTimeout)
  /\ UNCHANGED <<fadeVars, lightsVars, cacheVars, sessionVars, remote, remote0, profile>>

\* --------------------------------------------------------------------- lights
\* LightsRepository.discover_devices (src/domains/lights/repository.py).

Discoverers == 1..MaxDiscoverers
Addresses == 1..MaxAddresses

\* A caller's discover_devices call, with its argument while it runs; for
\* the properties below: waited (it had to wait for the lock, while it runs)
\* and rounds (for each discovery round it has finished, at most one, what
\* the two discoveries returned together).
IdleDiscoverer ==
  [pc |-> "idle", force_refresh |-> FALSE, waited |-> FALSE, rounds |-> {}]

\* The call has returned self.devices.
Returned(rounds) == [IdleDiscoverer EXCEPT !.pc = "returned", !.rounds = rounds]

MonotonicStep == DISCOVERY_TTL

\* lines 57-58
_stale(force_refresh) ==
  force_refresh \/ devices = {} \/ (monotonic - _last_discovery) >= DISCOVERY_TTL

discovered_only(found, cached) == found

\* lines 103-106: {**saved, **broadcast}, or the cached devices when that is
\* empty and something is cached
discovered(found, cached) == IF found = {} /\ cached # {} THEN cached ELSE found

\* lines 96-103 with the lock acquired by c: the cached devices are returned
\* and the lock released when they are not stale; else the two discovery
\* tasks are started and awaited
HoldDiscoveryLock(c, ds, waiters) ==
  IF ~_stale(ds[c].force_refresh)
  THEN /\ discoverers' = [ds EXCEPT ![c] = Returned({})]
       /\ _discovery_lock' = [locked |-> FALSE, waiters |-> waiters]
  ELSE /\ discoverers' = [ds EXCEPT ![c].pc = "discovering"]
       /\ _discovery_lock' = [locked |-> TRUE, waiters |-> waiters]

\* lines 92-96: a caller invokes discover_devices(force_refresh): it returns
\* the cached devices when they are not stale, else goes on with the lock or
\* waits for it
discover_devices(c, force_refresh) ==
  /\ discoverers[c].pc = "idle"
  /\ LET ds == [discoverers EXCEPT ![c].force_refresh = force_refresh]
     IN IF ~_stale(force_refresh)
        THEN /\ discoverers' = [ds EXCEPT ![c] = Returned({})]
             /\ UNCHANGED _discovery_lock
        ELSE IF lock_free(_discovery_lock)
        THEN HoldDiscoveryLock(c, ds, _discovery_lock.waiters)
        ELSE /\ discoverers' = [ds EXCEPT ![c].pc = "waiting", ![c].waited = TRUE]
             /\ _discovery_lock' = [_discovery_lock EXCEPT !.waiters = Append(@, c)]
  /\ UNCHANGED <<devices, _last_discovery, monotonic>>
  /\ UNCHANGED <<fadeVars, weatherVars, cacheVars, sessionVars, remote, remote0, profile>>

\* line 96: the lock was released and c is the first waiter: it acquires
DiscoveryLockWake(c) ==
  /\ discoverers[c].pc = "waiting"
  /\ ~_discovery_lock.locked
  /\ _discovery_lock.waiters # <<>>
  /\ Head(_discovery_lock.waiters) = c
  /\ HoldDiscoveryLock(c, discoverers, Tail(_discovery_lock.waiters))
  /\ UNCHANGED <<devices, _last_discovery, monotonic>>
  /\ UNCHANGED <<fadeVars, weatherVars, cacheVars, sessionVars, remote, remote0, profile>>

\* lines 103-112: both discovery tasks have returned (a timeout or an error
\* of one is an empty result of it); the cache and the time of the round are
\* written, the lock is released
DiscoveryDone(c) ==
  /\ discoverers[c].pc = "discovering"
  /\ \E found \in SUBSET Addresses :
       /\ devices' = discovered(found, devices)
       /\ discoverers' = [discoverers EXCEPT ![c] = Returned({found})]
  /\ _last_discovery' = monotonic
  /\ _discovery_lock' = [_discovery_lock EXCEPT !.locked = FALSE]
  /\ UNCHANGED monotonic
  /\ UNCHANGED <<fadeVars, weatherVars, cacheVars, sessionVars, remote, remote0, profile>>

\* time.monotonic() goes on
MonotonicTick ==
  /\ monotonic < MonotonicStep * MaxMonotonicSteps
  /\ monotonic' = monotonic + MonotonicStep
  /\ UNCHANGED <<devices, _last_discovery, _discovery_lock, discoverers>>
  /\ UNCHANGED <<fadeVars, weatherVars, cacheVars, sessionVars, remote, remote0, profile>>

InitLights ==
  /\ devices = {}
  /\ _last_discovery = 0
  /\ _discovery_lock = [locked |-> FALSE, waiters |-> <<>>]
  /\ discoverers = [c \in Discoverers |-> IdleDiscoverer]
  /\ monotonic = 0

\* ---------------------------------------------------------------- sunset fade
\* refresh_sunset_fade_jobs (src/domains/lights/handler.py) and its callers
\* (src/schedules.py).

\* Instants are counted in 1/(SUNSET_FADE_STEPS - 1) seconds, the unit in
\* which the interval between two fade steps is a whole number.
FadeUnitsPerSecond == SUNSET_FADE_STEPS - 1
MinutesPerDay == 1440
FadeUnitsPerDay == MinutesPerDay * SecondsPerMinute * FadeUnitsPerSecond

\* lines 52-58; the list is indexed from 1, step_index from 0
_build_sunset_step_times(sunset_at, total_steps, duration_minutes) ==
  IF total_steps <= 1
  THEN <<sunset_at>>
  ELSE LET duration == duration_minutes * SecondsPerMinute * FadeUnitsPerSecond
           start_at == sunset_at - duration \div 2
           interval == duration \div (total_steps - 1)
       IN [i \in 1..total_steps |-> start_at + interval * (i - 1)]

\* The sunsets the weather provider answers with: today's, at minute
\* SunsetMinute of the day, and tomorrow's at the same time of day.
SunsetMinute == 40
SunsetToday == SunsetMinute * SecondsPerMinute * FadeUnitsPerSecond
Sunsets == {SunsetToday, SunsetToday + FadeUnitsPerDay}

\* The wall clock is read at multiples of the run time of today's fourth
\* step, so that one reading equals a run time exactly.
WallStep ==
  _build_sunset_step_times(SunsetToday, SUNSET_FADE_STEPS,
                           SUNSET_FADE_DURATION_MINUTES)[4]

\* The callers of refresh_sunset_fade_jobs: initialize_schedules once, the
\* cron job sunset_fade_planner again and again.
RefreshCallers == {"initialize_schedules", "sunset_fade_planner"}

IdleRefresher == [pc |-> "idle", n |-> 0, now |-> 0, scheduled |-> FALSE]

\* A job id is the sequence of its parts: its first part is the text up to
\* the first part that varies, so an id starts with the prefix exactly when
\* its first part is the prefix.
startswith(id, prefix) == id[1] = prefix

\* line 144: f"{SUNSET_FADE_JOB_PREFIX}{sunset_at.date().isoformat()}_{step_index:02d}"
FadeJobId(sunset_at, step_index) ==
  <<SUNSET_FADE_JOB_PREFIX, sunset_at \div FadeUnitsPerDay,
    step_index \div 10, step_index % 10>>

FadeJobs(js) == {id \in DOMAIN js : startswith(id, SUNSET_FADE_JOB_PREFIX)}

\* src/schedules.py, register_schedules
CronJobs ==
  {<<"lights_morning_scene">>, <<"lights_night_scene">>, <<"sunset_fade_planner">>}

without_fade_jobs(js) == [id \in DOMAIN js \ FadeJobs(js) |-> js[id]]

skipped_before(run_at, now_at) == run_at < now_at

\* line 137: if run_at <= now: continue
skipped(run_at, now_at) == run_at <= now_at

\* lines 136-148: the jobs after the loop over the run times, added by
\* invocation n; add_job(..., replace_existing=True) replaces a job of the
\* same id
with_fade_jobs(js, sunset_at, now_at, n) ==
  LET run_times == _build_sunset_step_times(sunset_at, SUNSET_FADE_STEPS,
                                            SUNSET_FADE_DURATION_MINUTES)
      added == {i \in DOMAIN run_times : ~skipped(run_times[i], now_at)}
      ids == {FadeJobId(sunset_at, i - 1) : i \in added}
  IN [id \in DOMAIN js \cup ids |->
        IF id \in ids
        THEN LET i == CHOOSE i \in added : FadeJobId(sunset_at, i - 1) = id
             IN [trigger |-> "date", run_date |-> run_times[i], by |-> n]
        ELSE js[id]]

\* lines 106-112: a caller invokes refresh_sunset_fade_jobs: every job whose
\* id starts with the prefix is removed, and the sunset is asked for. The
\* scheduler runs one instance of the planner job at a time, and
\* initialize_schedules is called once.
refresh_sunset_fade_jobs(c) ==
  /\ refreshers[c].pc # "lookup"
  /\ c = "initialize_schedules" => refreshers[c].n = 0
  /\ refreshCount < MaxRefreshes
  /\ refreshCount' = refreshCount + 1
  /\ jobs' = without_fade_jobs(jobs)
  /\ refreshers' = [refreshers EXCEPT ![c] =
                      [IdleRefresher EXCEPT !.pc = "lookup", !.n = refreshCount + 1]]
  /\ UNCHANGED wall_clock
  /\ UNCHANGED <<lightsVars, weatherVars, cacheVars, sessionVars, remote, remote0, profile>>

\* lines 112-115: get_sunset raises RuntimeError, the invocation returns.
\* (get_sunset returns the sunset as datetime.isoformat() gives it, so
\* lines 117-126 let every payload through.)
SunsetLookupFails(c) ==
  /\ refreshers[c].pc = "lookup"
  /\ refreshers' = [refreshers EXCEPT ![c].pc = "returned"]
  /\ UNCHANGED <<jobs, refreshCount, wall_clock>>
  /\ UNCHANGED <<lightsVars, weatherVars, cacheVars, sessionVars, remote, remote0, profile>>

\* line 112: get_sunset raises another exception (the HTTP client's), which
\* ends the invocation
SunsetLookupRaises(c) ==
  /\ refreshers[c].pc = "lookup"
  /\ refreshers' = [refreshers EXCEPT ![c].pc = "raised"]
  /\ UNCHANGED <<jobs, refreshCount, wall_clock>>
  /\ UNCHANGED <<lightsVars, weatherVars, cacheVars, sessionVars, remote, remote0, profile>>

\* lines 112-153: get_sunset answers, the steps later than now are scheduled
\* and the invocation returns
SunsetLookupAnswers(c, sunset_at) ==
  /\ refreshers[c].pc = "lookup"
  /\ jobs' = with_fade_jobs(jobs, sunset_at, wall_clock, refreshers[c].n)
  /\ refreshers' = [refreshers EXCEPT ![c].pc = "returned", ![c].now = wall_clock,
                                      ![c].scheduled = TRUE]
  /\ UNCHANGED <<refreshCount, wall_clock>>
  /\ UNCHANGED <<lightsVars, weatherVars, cacheVars, sessionVars, remote, remote0, profile>>

\* lines 140-147, trigger="date": the scheduler runs the jobs that are due,
\* and a job with a date trigger is removed once it has run
RunDueJobs ==
  LET due == {id \in DOMAIN jobs : jobs[id].trigger = "date" /\ jobs[id].run_date <= wall_clock}
  IN /\ due # {}
     /\ jobs' = [id \in DOMAIN jobs \ due |-> jobs[id]]
     /\ UNCHANGED <<refreshers, refreshCount, wall_clock>>
     /\ UNCHANGED <<lightsVars, weatherVars, cacheVars, sessionVars, remote, remote0, profile>>

\* line 128
WallTick ==
  /\ wall_clock < WallStep * MaxWallSteps
  /\ wall_clock' = wall_clock + WallStep
  /\ UNCHANGED <<jobs, refreshers, refreshCount>>
  /\ UNCHANGED <<lightsVars, weatherVars, cacheVars, sessionVars, remote, remote0, profile>>

InitFade ==
  /\ jobs = [id \in CronJobs |-> [trigger |-> "cron", run_date |-> 0, by |-> 0]]
  /\ refreshers = [c \in RefreshCallers |-> IdleRefresher]
  /\ refreshCount = 0
  /\ wall_clock = 0

\* ---------------------------------------------------------------------- clock

\* Sessions last at least MinDurationMinutes, so nothing expires before
\* EarliestExpiry: the clock skips the stretch between the first ClockWindow
\* ticks and the tick before it.
EarliestExpiry == DurationTicks(MinDurationMinutes)
Horizon == EarliestExpiry + ClockWindow - 1

AdvanceClockTo(horizon) ==
  /\ now < horizon
  /\ now' = IF now = ClockWindow - 1 THEN EarliestExpiry - 1 ELSE now + 1
  /\ UNCHANGED <<fadeVars, lightsVars, weatherVars, cacheVars, focus_lock, remote, remote0, profile, focus_sessions, focus_tasks, creq,
                 lastCreate, nextId, rb, rollbackLog, applyCount, query>>

AdvanceClock == AdvanceClockTo(Horizon)

\* -------------------------------------------------------------- specification

Init ==
  /\ remote \in InitialProfiles
  /\ remote0 = remote
  /\ profile = NoProfile
  /\ focus_sessions = [i \in {} |-> NoRun]
  /\ focus_tasks = {}
  /\ creq = IdleReq
  /\ lastCreate = NoCreate
  /\ nextId = 1
  /\ rb = [inv \in SessionIds \X Origins |-> NoRun]
  /\ rollbackLog = [i \in SessionIds |-> <<>>]
  /\ applyCount = [i \in SessionIds |-> 0]
  /\ query = NoQuery
  /\ now = 0
  /\ profile_lock = [locked |-> FALSE, waiters |-> <<>>]
  /\ callers = [c \in Callers |-> IdleCaller]
  /\ weather = IdleWeather
  /\ focus_lock = FreeLock
  /\ InitLights
  /\ InitFade

\* The steps the service takes by itself: create calls in progress, expiry
\* tasks, their rollbacks and the clock.
Service ==
  \/ CreateFetch1
  \/ CreatePatch
  \/ CreateFetch2
  \/ CreateDeny
  \/ CreateCompensate
  \/ \E session_id \in SessionIds : ExpireStart(session_id)
  \/ \E session_id \in SessionIds : ExpireWake(session_id)
  \/ \E inv \in SessionIds \X Origins : RollbackStep(inv)
  \/ \E inv \in SessionIds \X Origins : RollbackRefresh(inv)
  \/ AdvanceClock

\* The service under create_focus_session calls and direct invocations of
\* _rollback_focus_session.
Next ==
  \/ \E request \in Requests : CreateStart(request)
  \/ \E session_id \in SessionIds : ManualRollback(session_id)
  \/ Service

Spec == Init /\ [][Next]_vars

\* The service as its routes drive it: rollbacks are those of the expiry
\* tasks and of failed create calls.
NextRoutes ==
  \/ \E request \in Requests : CreateStart(request)
  \/ Service

SpecRoutes == Init /\ [][NextRoutes]_vars

\* The service as its routes drive it, with time passing without limit, under
\* the scheduling of the event loop: a sleep ends when its delay has passed,
\* a task that can run does run, and every remote call of a rollback gets an
\* answer (success, status >= 400 or timeout).
NextLive ==
  \/ NextRoutes
  \/ \E session_id \in SessionIds : SleepOver(session_id)

Fairness ==
  \A session_id \in SessionIds :
    /\ WF_vars(ExpireStart(session_id))
    /\ WF_vars(SleepOver(session_id))
    /\ WF_vars(ExpireWake(session_id))
    /\ WF_vars(RollbackStep(<<session_id, "expiry">>))

SpecLive == Init /\ [][NextLive]_vars /\ Fairness

\* The service under two create calls, one after the other, whose sessions
\* are both in the store until their expiry tasks roll them back in either
\* order.
NextNested ==
  \/ \E request \in NestedRequests : CreateStartWithin(request, NestedSessions)
  \/ Service

SpecNested == Init /\ [][NextNested]_vars

\* The service as its routes drive it, observed through get_filters_state:
\* rollbacks are those of the expiry tasks.
NextQuery ==
  \/ \E request \in QueryRequests : CreateStart(request)
  \/ Service
  \/ QueryStart
  \/ QueryReturn

SpecQuery == Init /\ [][NextQuery]_vars

\* The service under the requests that probe the validation.
NextValidation ==
  \/ \E request \in ValidationRequests : CreateStart(request)
  \/ Service

SpecValidation == Init /\ [][NextValidation]_vars

\* The listing of get_filters_state by itself, a function of the session
\* store and the clock: the store is any that create calls of the first
\* ClockWindow ticks and the rollbacks can have left, with sessions of five
\* and six minutes in any status, some removed; no task runs while the
\* clock goes on until after the expiry of the shortest session.
StoredSession(id, created_at, minutes, status) ==
  [id |-> id, status |-> status, created_at |-> created_at,
   expires_at |-> created_at + DurationTicks(minutes),
   duration_minutes |-> minutes,
   targets |-> [domains |-> <<>>, category_ids |-> <<>>, service_ids |-> <<>>,
                safeSearch |-> TRUE, youtubeRestrictedMode |-> TRUE,
                blockBypass |-> TRUE],
   rollback |-> rollback_plan(remote0.parentalControl, <<>>, <<>>),
   error |-> IF status = "rollback_failed"
             THEN RequestError(PatchParentalControl(<<>>), "status")
             ELSE NoError]

ListedStores ==
  UNION { { sessions \in [ids -> [created_at : 0..(ClockWindow - 1),
                                  minutes : {MinDurationMinutes, MinDurationMinutes + 1},
                                  status : {"active", "rolling_back", "rollback_failed"}]] :
              \A i, j \in ids : i < j => sessions[i].created_at <= sessions[j].created_at }
          : ids \in SUBSET (1..MaxListed) }

InitListing ==
  /\ remote \in InitialProfiles
  /\ remote0 = remote
  /\ profile = NoProfile
  /\ \E sessions \in ListedStores :
       /\ focus_sessions =
            [i \in DOMAIN sessions |->
               StoredSession(i, sessions[i].created_at, sessions[i].minutes,
                             sessions[i].status)]
       /\ focus_tasks = {i \in DOMAIN sessions : sessions[i].status # "rollback_failed"}
  /\ creq = IdleReq
  /\ lastCreate = NoCreate
  /\ nextId = MaxListed + 1
  /\ rb = [inv \in SessionIds \X Origins |-> NoRun]
  /\ rollbackLog = [i \in SessionIds |-> <<>>]
  /\ applyCount = [i \in SessionIds |-> 0]
  /\ query = NoQuery
  /\ now = ClockWindow - 1
  /\ profile_lock = [locked |-> FALSE, waiters |-> <<>>]
  /\ callers = [c \in Callers |-> IdleCaller]
  /\ weather = IdleWeather
  /\ focus_lock = FreeLock
  /\ InitLights
  /\ InitFade

NextListing ==
  \/ AdvanceClockTo(Horizon + ClockOverrun)
  \/ QueryStart
  \/ QueryReturn

SpecListing == InitListing /\ [][NextListing]_vars

\* The profile cache under concurrent callers of ensure_profile_loaded.
NextCache ==
  \/ \E c \in Callers, force_refresh \in BOOLEAN : ensure_profile_loaded(c, force_refresh)
  \/ \E c \in Callers : LockWake(c)
  \/ \E c \in Callers : GetProfiles(c)
  \/ \E c \in Callers : GetProfile(c)

SpecCache == Init /\ [][NextCache]_vars

\* The device cache under concurrent callers of discover_devices.
NextLights ==
  \/ \E c \in Discoverers, force_refresh \in BOOLEAN : discover_devices(c, force_refresh)
  \/ \E c \in Discoverers : DiscoveryLockWake(c)
  \/ \E c \in Discoverers : DiscoveryDone(c)
  \/ MonotonicTick

SpecLights == Init /\ [][NextLights]_vars

\* The sunset fade jobs under the two callers of refresh_sunset_fade_jobs.
NextFade ==
  \/ \E c \in RefreshCallers : refresh_sunset_fade_jobs(c)
  \/ \E c \in RefreshCallers : SunsetLookupFails(c)
  \/ \E c \in RefreshCallers : SunsetLookupRaises(c)
  \/ \E c \in RefreshCallers, sunset_at \in Sunsets : SunsetLookupAnswers(c, sunset_at)
  \/ RunDueJobs
  \/ WallTick

SpecFade == Init /\ [][NextFade]_vars

\* The route GET /weather, one request at a time.
NextWeather ==
  \/ \E location \in Locations, units \in Units : GetWeather(location, units)
  \/ Geocode
  \/ Forecast

SpecWeather == Init /\ [][NextWeather]_vars

\* --------------------------------------------------------------- properties

LogIndexes(log) == 1..Len(log)

HasUnknownCategory(request, r) ==
  \E i \in 1..Len(request.category_ids) :
    request.category_ids[i] \notin DOMAIN r.parentalControl.categories
HasUnknownService(request, r) ==
  \E i \in 1..Len(request.service_ids) :
    request.service_ids[i] \notin DOMAIN r.parentalControl.services

\* C1: a create_focus_session call whose request names a category or service
\* id that the freshly fetched profile does not hold never gets past the
\* validation: it ends with a ValueError, has sent no mutation call, and no
\* session and no expiry task is registered for it.
C1_UnknownIdRejected ==
  /\ creq.pc \notin {"idle", "fetch1"} =>
       /\ ~HasUnknownCategory(creq.request, creq.pre)
       /\ ~HasUnknownService(creq.request, creq.pre)
  /\ ( /\ lastCreate.kind # "none"
       /\ lastCreate.fetched
       /\ \/ HasUnknownCategory(lastCreate.request, lastCreate.pre)
          \/ HasUnknownService(lastCreate.request, lastCreate.pre) )
     => /\ lastCreate.kind = "ValueError"
        /\ lastCreate.calls = <<>>
        /\ lastCreate.id \notin DOMAIN focus_sessions
        /\ lastCreate.id \notin focus_tasks
        /\ rb[<<lastCreate.id, "expiry">>].pc = "none"

C1_Witness ==
  /\ lastCreate.kind = "ValueError"
  /\ lastCreate.fetched
  /\ HasUnknownService(lastCreate.request, lastCreate.pre)

\* The payload restores the values the parental control had in profile pre
\* for the flags and for every id the request targets.
RestoresPre(json, request, pre) ==
  /\ json.safeSearch = pre.parentalControl.safeSearch
  /\ json.youtubeRestrictedMode = pre.parentalControl.youtubeRestrictedMode
  /\ json.blockBypass = pre.parentalControl.blockBypass
  /\ {json.categories[i].id : i \in 1..Len(json.categories)} = SeqToSet(request.category_ids)
  /\ {json.services[i].id : i \in 1..Len(json.services)} = SeqToSet(request.service_ids)
  /\ \A i \in 1..Len(json.categories) :
       json.categories[i].active = pre.parentalControl.categories[json.categories[i].id]
  /\ \A i \in 1..Len(json.services) :
       json.services[i].active = pre.parentalControl.services[json.services[i].id]

DenyPhaseFailed(outcome) ==
  /\ outcome.kind # "none"
  /\ Len(outcome.calls) >= 1
  /\ outcome.calls[1].ok
  /\ \E f \in LogIndexes(outcome.calls) :
       /\ outcome.calls[f].phase = "create"
       /\ IsDenyCall(outcome.calls[f].call)
       /\ ~outcome.calls[f].ok

\* C2: when a PATCH or POST of the deny-list phase fails after the
\* parental-control PATCH succeeded, the call ends with a RuntimeError, has
\* sent exactly one restoring parental-control PATCH, which carries the
\* pre-session values, and no session is in the store for it.
C2_DenyFailureRestoresOnce ==
  LET calls == lastCreate.calls
      restores == {i \in LogIndexes(calls) :
                     calls[i].phase = "rollback" /\ IsParentalCall(calls[i].call)}
  IN DenyPhaseFailed(lastCreate)
     => /\ lastCreate.kind = "RuntimeError"
        /\ lastCreate.id \notin DOMAIN focus_sessions
        /\ Cardinality(restores) = 1
        /\ \A i \in restores :
             RestoresPre(calls[i].call.json, lastCreate.request, lastCreate.pre)

C2_Witness ==
  /\ DenyPhaseFailed(lastCreate)
  /\ lastCreate.request.category_ids # <<>>

\* The only create call so far returned a session, and that session has left
\* the store: its rollback succeeded, and nothing else wrote to the remote.
RolledBackAlone ==
  /\ nextId = 2
  /\ lastCreate.kind = "ok"
  /\ lastCreate.id \notin DOMAIN focus_sessions

\* C3: creating a session and rolling it back, every remote call succeeding
\* and with no other writer, leaves the remote deny-list as it was before
\* the session.
C3_DenylistRoundTrip == RolledBackAlone => remote.denylist = remote0.denylist

C3_Witness ==
  /\ RolledBackAlone
  /\ \E i \in LogIndexes(rollbackLog[1]) : rollbackLog[1][i].call.method = "DELETE"

\* C4: for a session, _apply_rollback is started at most once whatever the
\* interleaving of the expiry task and a direct _rollback_focus_session: no
\* call of the plan is issued twice, and the invocation that finds the
\* session no longer active returns without an error.
C4_RollbackAtMostOnce ==
  \A session_id \in SessionIds :
    /\ applyCount[session_id] <= 1
    /\ \A i, j \in LogIndexes(rollbackLog[session_id]) :
         i # j => rollbackLog[session_id][i].call # rollbackLog[session_id][j].call
    /\ \A origin \in Origins :
         (rb[<<session_id, origin>>].pc = "done" /\ rb[<<session_id, origin>>].k = 0)
           => rb[<<session_id, origin>>].raised = NoError

C4_Witness ==
  /\ rb[<<1, "manual">>].k > 0
  /\ rb[<<1, "expiry">>].wake > 0
  /\ rb[<<1, "expiry">>].pc = "done"
  /\ rb[<<1, "expiry">>].k = 0

\* C5: when create_focus_session fails and the compensating _apply_rollback
\* fails too, the error raised describes the original failure and the
\* rollback failure.
C5_BothFailuresDescribed ==
  (lastCreate.kind = "RuntimeError" /\ lastCreate.rollback_exc # NoError)
    => /\ [failure |-> "original", exc |-> lastCreate.exc] \in lastCreate.error.describes
       /\ [failure |-> "rollback", exc |-> lastCreate.rollback_exc]
            \in lastCreate.error.describes

\* C6: _apply_rollback attempts every item of the plan whatever fails: when
\* a session's rollback has reported failure, the parental-control PATCH and
\* the call of every captured deny-list entry have been sent, and failure is
\* reported exactly when a call failed.
C6_RollbackBestEffort ==
  \A session_id \in DOMAIN focus_sessions :
    LET session == focus_sessions[session_id]
        log == rollbackLog[session_id]
    IN /\ session.status = "rollback_failed" =>
            /\ \E i \in LogIndexes(log) : IsParentalCall(log[i].call)
            /\ \A j \in 1..Len(session.rollback.denylist) :
                 \E i \in LogIndexes(log) :
                   log[i].call.path = <<"denylist", quote_plus(session.rollback.denylist[j].domain)>>
       /\ session.status = "rollback_failed" <=> \E i \in LogIndexes(log) : ~log[i].ok

\* get_filters_state returns in this step.
QueryReturns == query.pc = "fetch" /\ query'.pc = "returned"

\* The only create call so far returned a session that is still active, and
\* the clock is before its expiry.
ActiveBeforeExpiry ==
  /\ nextId = 2
  /\ lastCreate.kind = "ok"
  /\ lastCreate.id \in DOMAIN focus_sessions
  /\ focus_sessions[lastCreate.id].status = "active"
  /\ now < lastCreate.returned.expires_at

ListsCreated(entries) ==
  /\ Len(entries) = 1
  /\ entries[1].session_id = lastCreate.id
  /\ entries[1].remaining_seconds <= lastCreate.request.duration_minutes * SecondsPerMinute

RollbackFailedKept(sessions, log) ==
  \A session_id \in SessionIds :
    (\E i \in LogIndexes(log[session_id]) : ~log[session_id][i].ok)
      => /\ session_id \in DOMAIN sessions
         /\ sessions[session_id].status = "rollback_failed"
         /\ sessions[session_id].error # NoError

\* C8: once _apply_rollback has failed for a session, the session is in the
\* store with status rollback_failed and the error, and from then on no step
\* changes it, sends a rollback call for it or starts _apply_rollback for it.
C8_FailedRollbackNotRetried ==
  [][ /\ RollbackFailedKept(focus_sessions', rollbackLog')
      /\ \A session_id \in SessionIds :
           ( /\ session_id \in DOMAIN focus_sessions
             /\ focus_sessions[session_id].status = "rollback_failed" )
           => /\ session_id \in DOMAIN focus_sessions'
              /\ focus_sessions'[session_id] = focus_sessions[session_id]
              /\ rollbackLog'[session_id] = rollbackLog[session_id]
              /\ applyCount'[session_id] = applyCount[session_id] ]_vars

C8_Witness ==
  /\ 1 \in DOMAIN focus_sessions
  /\ focus_sessions[1].status = "rollback_failed"
  /\ rb[<<1, "expiry">>].k > 0
  /\ rb[<<1, "manual">>].pc = "done"

StatusOf(sessions, session_id) ==
  IF session_id \in DOMAIN sessions THEN sessions[session_id].status ELSE "absent"

\* C9: a session's status moves only along
\* active -> rolling_back -> {removed, rollback_failed}: it becomes active
\* only when its create call registers it, leaves active only for
\* rolling_back, leaves the store only from rolling_back and only when every
\* call of its plan succeeded, and rollback_failed is final.
C9_StatusTransitions ==
  [][ \A session_id \in SessionIds :
        LET old == StatusOf(focus_sessions, session_id)
            new == StatusOf(focus_sessions', session_id)
        IN /\ old = "absent" =>
                \/ new = "absent"
                \/ /\ new = "active"
                   /\ creq.pc # "idle"
                   /\ creq.id = session_id
                   /\ applyCount[session_id] = 0
           /\ old = "active" => new \in {"active", "rolling_back"}
           /\ old = "rolling_back" =>
                \/ new \in {"rolling_back", "rollback_failed"}
                \/ /\ new = "absent"
                   /\ Len(rollbackLog'[session_id])
                        = 1 + Len(focus_sessions[session_id].rollback.denylist)
                   /\ \A i \in LogIndexes(rollbackLog'[session_id]) :
                        rollbackLog'[session_id][i].ok
           /\ old = "rollback_failed" => new = "rollback_failed" ]_vars

C9_Witness ==
  /\ applyCount[1] = 1
  /\ 1 \notin DOMAIN focus_sessions
  /\ rb[<<1, "expiry">>].pc = "refresh"

\* C10: every session of the focusSessions list that get_filters_state
\* returns is in the store with status active when it is listed.
C10_OnlyActiveListed ==
  [][ QueryReturns
        => \A n \in 1..Len(query'.focusSessions) :
             StatusOf(focus_sessions, query'.focusSessions[n].session_id) = "active" ]_vars

\* A listing left out a session that was created before it and is now
\* rolling back or rollback_failed.
C10_Witness ==
  /\ query.pc = "returned"
  /\ query.focusSessions = <<>>
  /\ \E session_id \in DOMAIN focus_sessions :
       /\ focus_sessions[session_id].created_at < query.now
       /\ focus_sessions[session_id].status \in {"rolling_back", "rollback_failed"}

DurationInRange(request) ==
  request.duration_minutes \in MinDurationMinutes..MaxDurationMinutes

\* The call ended with the ValueError raised before the first fetch.
RejectedBeforeFetch(outcome) == outcome.kind = "ValueError" /\ ~outcome.fetched

\* C11: a create_focus_session call with duration_minutes below 5 or above
\* 1440 ends with a ValueError before its first profile fetch, has sent no
\* mutation call and registers no session and no expiry task (a first call
\* leaves the cache and the remote as they were); a call with a duration in
\* [5, 1440] is not rejected before the fetch.
C11_DurationBounds ==
  /\ creq.pc # "idle" => DurationInRange(creq.request)
  /\ lastCreate.kind # "none" =>
       IF DurationInRange(lastCreate.request)
       THEN ~RejectedBeforeFetch(lastCreate)
       ELSE /\ RejectedBeforeFetch(lastCreate)
            /\ lastCreate.calls = <<>>
            /\ lastCreate.id \notin DOMAIN focus_sessions
            /\ lastCreate.id \notin focus_tasks
            /\ rb[<<lastCreate.id, "expiry">>].pc = "none"
            /\ nextId = 2 => (profile = NoProfile /\ remote = remote0)

C11_Witness ==
  /\ RejectedBeforeFetch(lastCreate)
  /\ lastCreate.request.duration_minutes = MaxDurationMinutes + 1

HasEmptyDomain(request) ==
  \E i \in 1..Len(request.domains) : _normalize_domain(request.domains[i]) = <<>>

\* C12: a create_focus_session call whose request holds a domain that is
\* empty after normalization is rejected: it sends no mutation call and
\* returns no session.
C12_EmptyDomainRejected ==
  /\ (creq.pc # "idle" /\ HasEmptyDomain(creq.request)) => creq.calls = <<>>
  /\ (lastCreate.kind # "none" /\ HasEmptyDomain(lastCreate.request))
       => /\ lastCreate.kind # "ok"
          /\ lastCreate.calls = <<>>

\* C13: a create_focus_session call that fails raises a ValueError or a
\* RuntimeError, whatever step failed.
C13_TwoErrorKinds == lastCreate.kind \in {"none", "ok", "ValueError", "RuntimeError"}

\* The entries of a payload list name exactly the ids, each with active.
SetsAll(entries, ids, active) ==
  /\ {entries[i].id : i \in 1..Len(entries)} = SeqToSet(ids)
  /\ \A i \in 1..Len(entries) : entries[i].active = active

\* The parental-control PATCH a call sent first activates every targeted id.
ActivatesTargets(c) ==
  c.calls # <<>> =>
    /\ c.calls[1].phase = "create"
    /\ IsParentalCall(c.calls[1].call)
    /\ SetsAll(c.calls[1].call.json.categories, c.request.category_ids, TRUE)
    /\ SetsAll(c.calls[1].call.json.services, c.request.service_ids, TRUE)

\* C14: the parental-control PATCH of a create call sets every targeted
\* category and service id to active = true, and the parental-control PATCH
\* of the rollback of the session it returned sets each of them to the
\* active value of the profile the call read before it mutated anything.
C14_TargetsSetAndRestored ==
  /\ creq.pc # "idle" => ActivatesTargets(creq)
  /\ lastCreate.kind # "none" => ActivatesTargets(lastCreate)
  /\ lastCreate.kind = "ok" =>
       \A i \in LogIndexes(rollbackLog[lastCreate.id]) :
         IsParentalCall(rollbackLog[lastCreate.id][i].call)
           => RestoresPre(rollbackLog[lastCreate.id][i].call.json,
                          lastCreate.request, lastCreate.pre)

C14_Witness ==
  /\ lastCreate.kind = "ok"
  /\ lastCreate.calls[1].call.json.categories = <<[id |-> ads, active |-> TRUE]>>
  /\ rollbackLog[lastCreate.id] # <<>>
  /\ rollbackLog[lastCreate.id][1].call.json.categories = <<[id |-> ads, active |-> FALSE]>>

\* The domains a request targets, and the entries a deny-list holds for one.
TargetDomains(request) ==
  {_normalize_domain(request.domains[i]) : i \in 1..Len(request.domains)} \ {<<>>}

Prior(denylist, domain) == {e \in denylist : _normalize_domain(e.id) = domain}

\* The calls of a log that are sent in a phase for the deny-list entry of a domain.
CallsFor(log, phase, domain) ==
  {i \in LogIndexes(log) :
     /\ log[i].phase = phase
     /\ IsDenyCall(log[i].call)
     /\ IF log[i].call.method = "POST"
        THEN log[i].call.json.id = domain
        ELSE log[i].call.path = <<"denylist", quote_plus(domain)>>}

\* The create call returned a session, whose rollback has removed it.
SessionRolledBack == lastCreate.kind = "ok" /\ lastCreate.id \notin DOMAIN focus_sessions

\* For the domains d that satisfy was(d) in the deny-list a create call
\* read: every call the creation sends for d satisfies made(call), every call
\* the session's rollback sends for d satisfies undone(call), and there is
\* one of each once the call has returned and once the rollback is through.
DenyCallsAre(c, was(_), made(_), undone(_)) ==
  \A d \in TargetDomains(c.request) :
    was(Prior(c.current_denylist, d)) =>
      /\ \A i \in CallsFor(c.calls, "create", d) : made(c.calls[i].call)
      /\ (c = lastCreate /\ lastCreate.kind = "ok") =>
           /\ Cardinality(CallsFor(c.calls, "create", d)) = 1
           /\ \A i \in CallsFor(rollbackLog[c.id], "rollback", d) :
                undone(rollbackLog[c.id][i].call)
           /\ SessionRolledBack =>
                Cardinality(CallsFor(rollbackLog[c.id], "rollback", d)) = 1

\* The create call in progress past its second fetch, and the last one ended.
CreateCalls ==
  (IF creq.pc \in {"call", "comp"} THEN {creq} ELSE {})
    \cup (IF lastCreate.kind # "none" THEN {lastCreate} ELSE {})

WasAbsent(entries) == entries = {}
IsPostActive(call) == call.method = "POST" /\ call.json.active
IsDelete(call) == call.method = "DELETE"

\* C15: for a target domain that the deny-list read at creation does not
\* hold, the creation sends a POST that creates the entry with active = true
\* and the session's rollback sends a DELETE for it, never a PATCH.
C15_AbsentPostedThenDeleted ==
  \A c \in CreateCalls : DenyCallsAre(c, WasAbsent, IsPostActive, IsDelete)

C15_Witness ==
  /\ SessionRolledBack
  /\ Prior(lastCreate.current_denylist, <<"a">>) = {}
  /\ \E i \in CallsFor(rollbackLog[lastCreate.id], "rollback", <<"a">>) :
       rollbackLog[lastCreate.id][i].ok

WasInactive(entries) == entries # {} /\ \A e \in entries : ~e.active
IsPatchActive(call) == call.method = "PATCH" /\ call.json.active
IsPatchInactive(call) == call.method = "PATCH" /\ ~call.json.active

\* C16: for a target domain that the deny-list read at creation holds with
\* active = false, the creation sends PATCH {active: true} for it and the
\* session's rollback sends PATCH {active: false} for it, never a DELETE.
C16_InactivePatchedBothWays ==
  \A c \in CreateCalls : DenyCallsAre(c, WasInactive, IsPatchActive, IsPatchInactive)

C16_Witness ==
  /\ SessionRolledBack
  /\ WasInactive(Prior(lastCreate.current_denylist, <<"b">>))
  /\ \E i \in CallsFor(rollbackLog[lastCreate.id], "rollback", <<"b">>) :
       rollbackLog[lastCreate.id][i].ok

WasActive(entries) == entries # {} /\ \A e \in entries : e.active

\* C17: for a target domain that the deny-list read at creation holds with
\* active = true, the creation sends no call, and the rollback plan of the
\* session records the domain with existed = true and active = true.
C17_ActiveLeftAlone ==
  \A c \in CreateCalls :
    \A d \in TargetDomains(c.request) :
      WasActive(Prior(c.current_denylist, d)) =>
        /\ CallsFor(c.calls, "create", d) = {}
        /\ (c = lastCreate /\ lastCreate.kind = "ok") =>
             \E j \in 1..Len(c.rollback.denylist) :
               c.rollback.denylist[j] = [domain |-> d, existed |-> TRUE, active |-> TRUE]

C17_Witness ==
  /\ lastCreate.kind = "ok"
  /\ WasActive(Prior(lastCreate.current_denylist, <<"a">>))
  /\ CallsFor(lastCreate.calls, "create", <<"b">>) # {}

\* C18: at most one _fetch_profile started by ensure_profile_loaded is in
\* flight, whatever the number of callers and their force_refresh values.
C18_SingleFetchInFlight == Cardinality(Loading) <= 1

C18_Witness ==
  /\ Loading # {}
  /\ \E c, d \in Callers :
       /\ c # d
       /\ callers[c].pc = "waiting" /\ callers[c].force_refresh
       /\ callers[d].pc = "waiting" /\ ~callers[d].force_refresh

\* C19: a caller that invoked ensure_profile_loaded while another caller's
\* refresh was loading, a refresh that then succeeded, has no fetch issued on
\* its behalf and returns the result of that refresh.
C19_WaitersCoalesced ==
  \A c \in Callers :
    (callers[c].joined # 0 /\ callers[callers[c].joined].pc = "returned")
      => /\ callers[c].fetches = 0
         /\ callers[c].pc = "returned"
              => callers[c].result = callers[callers[c].joined].result

FetchFails(c) ==
  /\ callers[c].pc \in {"get_profiles", "get_profile"}
  /\ callers'[c].pc = "raised"

\* C20: the step in which a profile fetch fails leaves the cached profile
\* as it was and raises the error to the caller; no fetch is in flight after
\* it and no caller has a new fetch started, and the caller that got the
\* error stays with it.
C20_FailureKeepsCache ==
  [][ \A c \in Callers :
        /\ FetchFails(c) =>
             /\ profile' = profile
             /\ callers'[c].result \in {FetchError, NoProfilesError}
             /\ Loading' = {}
             /\ \A d \in Callers : callers'[d].fetches = callers[d].fetches
        /\ callers[c].pc = "raised" => callers'[c] = callers[c] ]_vars

\* A forced refresh failed after the refresh it had waited for was cached.
C20_Witness ==
  \E c, d \in Callers :
    /\ callers[c].pc = "raised"
    /\ callers[c].result = FetchError
    /\ callers[c].joined = d
    /\ callers[d].pc = "returned"
    /\ callers[d].fetches = 1
    /\ \A e \in Callers \ {c, d} : callers[e].pc = "idle"
    /\ profile = Snapshot(remote)

\* The call is the PATCH, POST or DELETE of the deny-list entry of the domain.
CallIsFor(call, domain) ==
  /\ IsDenyCall(call)
  /\ IF call.method = "POST"
     THEN call.json.id = domain
     ELSE call.path = <<"denylist", quote_plus(domain)>>

\* The plan of call c holds what is needed to undo the mutation call: for
\* the parental-control PATCH the flags and the active value of every
\* targeted id as the first fetch read them, for a deny-list call an entry
\* for its domain with the state the second fetch read.
PlanCovers(c, call) ==
  IF IsParentalCall(call)
  THEN RestoresPre(_apply_rollback(c.rollback)[1].json, c.request, c.pre)
  ELSE \E j \in 1..Len(c.rollback.denylist) :
         /\ CallIsFor(call, c.rollback.denylist[j].domain)
         /\ c.rollback.denylist[j]
              = deny_item(c.current_denylist, c.rollback.denylist[j].domain)

\* C26: the rollback plan is captured before mutation: while a mutation call
\* of a create call is in flight, and for every mutation call the create
\* call has sent, the plan holds the entry that undoes it.
C26_PlanCapturedBeforeMutation ==
  /\ (creq.pc \in {"patch", "call"}) => PlanCovers(creq, creq.pending)
  /\ \A c \in (IF creq.pc \notin {"idle", "fetch1"} THEN {creq} ELSE {})
                \cup (IF lastCreate.kind # "none" THEN {lastCreate} ELSE {}) :
       \A i \in LogIndexes(c.calls) :
         c.calls[i].phase = "create" => PlanCovers(c, c.calls[i].call)

\* The POST of a second domain is in flight.
C26_Witness ==
  /\ creq.pc = "call"
  /\ creq.pending.method = "POST"
  /\ Len(creq.calls) = 2
  /\ Len(creq.rollback.denylist) = 2

\* The target domains whose PATCH or POST of the creation failed.
FailedDomains(c) ==
  {d \in TargetDomains(c.request) :
     \E i \in CallsFor(c.calls, "create", d) : ~c.calls[i].ok}

\* The target domains the loop had not reached when a domain's call failed:
\* those that sort after the failed one.
Unprocessed(c) ==
  {d \in TargetDomains(c.request) : \E e \in FailedDomains(c) : StrLess(e, d)}

PlanDomains(c) == {c.rollback.denylist[j].domain : j \in 1..Len(c.rollback.denylist)}

\* The create call that is compensating, and the last one that failed.
FailedCreates ==
  (IF creq.pc = "comp" THEN {creq} ELSE {})
    \cup (IF lastCreate.kind = "RuntimeError" THEN {lastCreate} ELSE {})

\* C27: when a create call fails at the PATCH or POST of a domain, the
\* compensating _apply_rollback sends deny-list calls only for domains of the
\* partial plan, each a target the loop had reached; the domains the loop had
\* not reached are not in the plan and get no PATCH and no DELETE.
C27_CompensationWithinPlan ==
  \A c \in FailedCreates :
    FailedDomains(c) # {} =>
      /\ PlanDomains(c) = TargetDomains(c.request) \ Unprocessed(c)
      /\ \A i \in LogIndexes(c.calls) :
           (c.calls[i].phase = "rollback" /\ IsDenyCall(c.calls[i].call))
             => \E d \in PlanDomains(c) : CallIsFor(c.calls[i].call, d)
      /\ \A d \in Unprocessed(c) : CallsFor(c.calls, "rollback", d) = {}

\* The POST of the first domain failed, the compensation has sent the DELETE
\* of that domain, and a second domain was never reached.
C27_Witness ==
  /\ lastCreate.kind = "RuntimeError"
  /\ FailedDomains(lastCreate) = {<<"a">>}
  /\ Unprocessed(lastCreate) = {<<"b">>}
  /\ CallsFor(lastCreate.calls, "rollback", <<"a">>) # {}

\* The create call in progress, and the last one ended.
StartedCreates ==
  (IF creq.pc # "idle" THEN {creq} ELSE {})
    \cup (IF lastCreate.kind # "none" THEN {lastCreate} ELSE {})

\* C28: the profile a create call uses to decide on the deny-list is the one
\* of the forced fetch issued after its parental-control PATCH succeeded:
\* the fetch is there only after the PATCH was applied, the profile it
\* returned holds the PATCH (for the first create call, when nothing else
\* writes to the remote), and every entry of the plan's deny-list records
\* the state of that profile.
C28_RefreshAfterPatch ==
  \A c \in StartedCreates :
    /\ c.refreshed # NoProfile =>
         /\ c.calls # <<>>
         /\ c.calls[1].phase = "create"
         /\ IsParentalCall(c.calls[1].call)
         /\ c.calls[1].ok
         /\ nextId = 2 => c.refreshed.data = RemoteAfter(c.calls[1].call, c.pre)
         /\ c.current_denylist = c.refreshed.data.denylist
    /\ c.calls # <<>> =>
         \A j \in 1..Len(c.rollback.denylist) :
           /\ c.refreshed # NoProfile
           /\ c.rollback.denylist[j]
                = deny_item(c.refreshed.data.denylist, c.rollback.denylist[j].domain)

\* A deny-list call is in flight, decided on a profile that holds the PATCH.
C28_Witness ==
  /\ creq.pc = "call"
  /\ creq.refreshed # NoProfile
  /\ creq.refreshed.data.parentalControl # creq.pre.parentalControl
  /\ creq.rollback.denylist # <<>>

\* The payload carries the three flags as requested and an entry for every
\* targeted category and service id.
CarriesAll(json, request) ==
  /\ json.safeSearch = request.safe_search
  /\ json.youtubeRestrictedMode = request.youtube_restricted_mode
  /\ json.blockBypass = request.block_bypass
  /\ SetsAll(json.categories, request.category_ids, TRUE)
  /\ SetsAll(json.services, request.service_ids, TRUE)

CreationCalls(c) == {i \in LogIndexes(c.calls) : c.calls[i].phase = "create"}

\* C29: of the calls a create call sends to apply the request, the first is
\* the parental-control PATCH, it carries the three flags and every targeted
\* category and service id, and all the others are PATCH or POST calls of
\* the deny-list: a call that returned a session has sent exactly one
\* parental-control PATCH, before any deny-list call.
C29_OneParentalPatchFirst ==
  \A c \in StartedCreates :
    /\ \A i \in CreationCalls(c) :
         IF i = 1
         THEN IsParentalCall(c.calls[i].call) /\ CarriesAll(c.calls[i].call.json, c.request)
         ELSE IsDenyCall(c.calls[i].call) /\ c.calls[i].call.method \in {"PATCH", "POST"}
    /\ (c = lastCreate /\ lastCreate.kind = "ok") =>
         /\ CreationCalls(c) = LogIndexes(c.calls)
         /\ Cardinality({i \in CreationCalls(c) : IsParentalCall(c.calls[i].call)}) = 1

\* A session was returned after one PATCH with a category, a service and a
\* flag requested off, and two deny-list calls.
C29_Witness ==
  /\ lastCreate.kind = "ok"
  /\ Len(lastCreate.calls) = 3
  /\ ~lastCreate.calls[1].call.json.youtubeRestrictedMode
  /\ lastCreate.calls[1].call.json.categories # <<>>
  /\ lastCreate.calls[1].call.json.services # <<>>

\* C30: while the _apply_rollback started by a session's expiry task is
\* running, the clock is at or past the session's expires_at; the clock
\* never goes back, so the task started it no earlier than expires_at.
C30_ExpiryNotEarly ==
  \A session_id \in SessionIds :
    rb[<<session_id, "expiry">>].pc = "applying"
      => /\ session_id \in DOMAIN focus_sessions
         /\ now >= focus_sessions[session_id].expires_at

\* The expiry task slept and has started _apply_rollback.
C30_Witness ==
  /\ rb[<<1, "expiry">>].pc = "applying"
  /\ rb[<<1, "expiry">>].wake = focus_sessions[1].expires_at
  /\ focus_sessions[1].created_at < focus_sessions[1].expires_at

\* C22: when the expiry task has recorded the outcome of _apply_rollback,
\* the session removed or marked rollback_failed, it goes on to the forced
\* refresh of the profile cache, in both outcomes.
C22_RefreshInBothOutcomes ==
  [][ \A session_id \in SessionIds :
        LET inv == <<session_id, "expiry">>
        IN (rb[inv].pc = "applying" /\ rb'[inv].pc # "applying")
             => rb'[inv].pc = "refresh" ]_vars

\* The ids of the sessions a listing holds, in its order.
ListedIds(entries) == [n \in 1..Len(entries) |-> entries[n].session_id]

FullyNormalized(domain) ==
  /\ \A i \in 1..Len(domain) : LowerChar(domain[i]) = domain[i]
  /\ domain # <<>> => (Head(domain) # Space /\ domain[Len(domain)] \notin {Space, Dot})
  /\ _normalize_domain(domain) = domain

\* C25: the target domains of a session that create_focus_session returned
\* are sorted, without duplicates, and each is fully normalized.
C25_TargetsNormalized ==
  lastCreate.kind = "ok" =>
    LET domains == lastCreate.returned.targets.domains
    IN /\ \A n, m \in 1..Len(domains) : n < m => StrLess(domains[n], domains[m])
       /\ \A n \in 1..Len(domains) : FullyNormalized(domains[n])

\* C23: resolve_location sends the queries of the requested location in
\* their order and stops at the first result; only when none of them had a
\* result it goes on with the queries of the default location, "Nashville,
\* TN" first, and what it then returns has fallback_used = true; when a query
\* of the requested location has a result, no default query is sent and
\* fallback_used = false.
C23_FallbackOrder ==
  weather.pc # "idle" =>
    LET asked == weather.asked
        requested == _location_queries(_normalize_location(weather.location))
        all == requested \o _location_queries(DEFAULT_LOCATION)
        fell_back == Len(asked) > Len(requested)
    IN /\ Len(asked) <= Len(all)
       /\ \A n \in 1..Len(asked) : asked[n].query = all[n]
       /\ \A n \in 1..(Len(asked) - 1) : asked[n].answer = "none"
       /\ all[Len(requested) + 1] = DEFAULT_LOCATION
       /\ weather.pc = "geocode" =>
            /\ weather.queries[weather.i] = all[Len(asked) + 1]
            /\ \A n \in 1..Len(asked) : asked[n].answer = "none"
       /\ weather.pc = "forecast" =>
            /\ asked[Len(asked)].answer = "found"
            /\ weather.fallback_used = fell_back
       /\ (weather.pc = "responded" /\ weather.outcome.kind = "returned") =>
            /\ asked[Len(asked)].answer = "found"
            /\ weather.outcome.weather.fallback_used = fell_back
            /\ weather.response.body.weather.fallback_used = fell_back

\* No query for "A,T" had a result, "Nashville, TN" was asked next and
\* resolved, and the route answered with fallback_used = true.
C23_Witness ==
  /\ weather.pc = "responded"
  /\ weather.location = <<"A", ",", "T">>
  /\ Len(weather.asked) = 4
  /\ weather.asked[4] = [query |-> DEFAULT_LOCATION, answer |-> "found"]
  /\ weather.response.status_code = 200
  /\ weather.response.body.weather.fallback_used

\* C24: when the weather handler raises a RuntimeError, the route GET
\* /weather answers with status 502 and the error's message as detail, and
\* with no payload; a payload with status "ok" is returned only when the
\* handler returned.
C24_RuntimeErrorIs502 ==
  weather.pc = "responded" =>
    /\ weather.outcome.kind = "RuntimeError" =>
         /\ weather.response.status_code = 502
         /\ weather.response.detail = weather.outcome.text
         /\ "body" \notin DOMAIN weather.response
    /\ "body" \in DOMAIN weather.response =>
         /\ weather.outcome.kind = "returned"
         /\ weather.response.body.status = "ok"

\* The default location did not resolve either: 502 with that message.
C24_Witness ==
  /\ weather.pc = "responded"
  /\ weather.outcome.kind = "RuntimeError"
  /\ weather.response.detail = "Unable to resolve location from weather provider."
  /\ Len(weather.asked) = 4

\* C31: under fair scheduling and remote calls that all get an answer, every
\* session in the store with status active or rolling_back eventually is
\* removed from the store or marked rollback_failed; none stays active or
\* rolling_back forever.
C31_ActiveEventuallyEnds ==
  \A session_id \in SessionIds :
    (/\ session_id \in DOMAIN focus_sessions
     /\ focus_sessions[session_id].status \in {"active", "rolling_back"})
      ~> (\/ session_id \notin DOMAIN focus_sessions
          \/ focus_sessions[session_id].status = "rollback_failed")

\* A session was registered, its expiry task slept until a time beyond the
\* observed window and its rollback has ended, by removal or by failure.
C31_Witness ==
  \E session_id \in SessionIds :
    /\ applyCount[session_id] = 1
    /\ rb[<<session_id, "expiry">>].pc = "done"
    /\ now > Horizon
    /\ \/ session_id \notin DOMAIN focus_sessions
       \/ focus_sessions[session_id].status = "rollback_failed"

\* The run inv reaches the first lock block of _rollback_focus_session in
\* this step: a direct invocation starts, or the expiry task has no delay
\* left or wakes up.
EntersRollback(inv) ==
  /\ rb[inv].pc \in {"none", "created", "sleeping"}
  /\ rb'[inv].pc \in {"applying", "done"}
  /\ inv[2] = "expiry" => inv[1] \in DOMAIN focus_sessions

NotActive(sessions, session_id) ==
  \/ session_id \notin DOMAIN sessions
  \/ sessions[session_id].status # "active"

\* C32: the rollback procedure invoked for a session id that is missing from
\* the store or whose status is not active ends at once without an error,
\* sends no remote call (it never reaches _apply_rollback, the remote and the
\* call logs stay as they are) and leaves the session store and the task
\* table unchanged.
C32_InactiveRollbackIsNoOp ==
  [][\A inv \in SessionIds \X Origins :
       (EntersRollback(inv) /\ NotActive(focus_sessions, inv[1]))
         => /\ rb'[inv] = [NoRun EXCEPT !.pc = "done", !.wake = rb[inv].wake]
            /\ focus_sessions' = focus_sessions
            /\ focus_tasks' = focus_tasks
            /\ remote' = remote
            /\ rollbackLog' = rollbackLog
            /\ applyCount' = applyCount
            /\ creq' = creq]_vars

\* A direct invocation has ended without calling _apply_rollback, for a
\* session the expiry task's rollback removed from the store or left in
\* status rollback_failed.
C32_Witness ==
  \E session_id \in SessionIds :
    /\ rb[<<session_id, "manual">>] = [NoRun EXCEPT !.pc = "done"]
    /\ applyCount[session_id] = 1
    /\ rb[<<session_id, "expiry">>].pc = "done"
    /\ NotActive(focus_sessions, session_id)

\* A remote call is in flight: a coroutine is suspended in a request to the
\* NextDNS service.
CallInFlight ==
  \/ creq.pc \in {"fetch1", "patch", "fetch2", "call", "comp"}
  \/ query.pc = "fetch"
  \/ \E inv \in SessionIds \X Origins : rb[inv].pc \in {"applying", "refresh"}

CallTargets(call) ==
  IF IsParentalCall(call)
  THEN {call.json.categories[i].id : i \in 1..Len(call.json.categories)}
         \cup {call.json.services[i].id : i \in 1..Len(call.json.services)}
  ELSE IF call.method = "POST" THEN {call.json.id}
  ELSE {call.path[2]}

\* The error is one of _request and its text, which quotes the path, holds
\* every target of the call (the path's first segment is the resource).
NamesTargets(exc, call) ==
  /\ exc.kind = "RuntimeError"
  /\ "path" \in DOMAIN exc
  /\ \A target \in CallTargets(call) :
       \E i \in 2..Len(exc.path) : exc.path[i] = target

FailedCall(log) == log[Len(log)].call

\* C35: every remote failure the engine surfaces names the target that
\* failed: the error a create call raises after a failed mutation, and the
\* error stored on a rollback_failed session, name the domain of the failed
\* deny-list call, or the category and service ids of the failed
\* parental-control PATCH.
C35_ErrorNamesTarget ==
  /\ (/\ lastCreate.kind = "RuntimeError"
      /\ lastCreate.exc # FetchError)
       => \E i \in LogIndexes(lastCreate.calls) :
            /\ lastCreate.calls[i].phase = "create"
            /\ ~lastCreate.calls[i].ok
            /\ NamesTargets(lastCreate.exc, lastCreate.calls[i].call)
  /\ \A session_id \in DOMAIN focus_sessions :
       focus_sessions[session_id].status = "rollback_failed"
         => NamesTargets(focus_sessions[session_id].error,
                         FailedCall(rollbackLog[session_id]))

\* The rollback of the session has succeeded: the expiry task called
\* _apply_rollback once, every call of the plan succeeded and the session
\* has left the store.
RolledBack(session_id) ==
  /\ applyCount[session_id] = 1
  /\ session_id \notin DOMAIN focus_sessions
  /\ rb[<<session_id, "expiry">>].pc \in {"refresh", "done"}
  /\ rb[<<session_id, "expiry">>].k > 0
  /\ \A i \in LogIndexes(rollbackLog[session_id]) : rollbackLog[session_id][i].ok

\* C36: session A (the first create call) and session B (the second,
\* created while A was in the store and active) are nested: when the
\* rollback of B had ended before the rollback of A called _apply_rollback
\* and both rollbacks succeeded, the remote profile (the three flags, every
\* category and service, the deny-list) is the one from before A's create
\* call.
C36_NestedUnwind ==
  (/\ RolledBack(1)
   /\ RolledBack(2)
   /\ 2 \in rb[<<1, "expiry">>].after)
    => remote = remote0

\* Both sessions were created, B changed something on top of A (its create
\* call sent a mutation that took effect), B was rolled back, then A.
C36_Witness ==
  /\ RolledBack(1)
  /\ RolledBack(2)
  /\ 2 \in rb[<<1, "expiry">>].after
  /\ lastCreate.kind = "ok"
  /\ lastCreate.id = 2
  /\ lastCreate.pre # remote0
  /\ lastCreate.rollback.denylist # <<>>
  /\ Len(rollbackLog[1]) > 2
  /\ remote0.denylist # {}

\* The callers whose discovery round is under way.
Discovering(ds) == {c \in Discoverers : ds[c].pc = "discovering"}

\* C37: once the cached device set is non-empty it never becomes empty; a
\* discovery round that finds no device leaves the cached devices as they
\* are; at most one discovery round is under way at a time, and only with
\* the discovery lock held.
C37_CacheKeptAndRoundsSerial ==
  [][ /\ devices # {} => devices' # {}
      /\ \A c \in Discovering(discoverers) \ Discovering(discoverers') :
            discoverers'[c].rounds = {{}} => devices' = devices
      /\ Cardinality(Discovering(discoverers')) <= 1
      /\ Discovering(discoverers') # {} => _discovery_lock'.locked ]_vars

\* A round that found nothing has ended with devices cached, and the caller
\* that waited for the lock meanwhile is running its own round after it.
C37_Witness ==
  \E c, d \in Discoverers :
    /\ discoverers[c].pc = "returned"
    /\ discoverers[c].rounds = {{}}
    /\ devices # {}
    /\ discoverers[d].pc = "discovering"
    /\ discoverers[d].waited

\* The invocation of caller c returns in this step.
RefreshReturns(c) == refreshers[c].pc = "lookup" /\ refreshers'[c].pc = "returned"

\* What holds of the fade jobs js when the invocation r has returned: each
\* was added by it and runs strictly later than its now, and none is left
\* when its sunset lookup failed.
OwnFadeJobsOnly(js, r) ==
  /\ \A id \in FadeJobs(js) : js[id].by = r.n /\ js[id].run_date > r.now
  /\ ~r.scheduled => FadeJobs(js) = {}

C39_TasksMatchSessions ==
  /\ focus_tasks \subseteq DOMAIN focus_sessions
  /\ \A session_id \in DOMAIN focus_sessions :
       /\ focus_sessions[session_id].status \in {"active", "rolling_back"}
            => session_id \in focus_tasks
       /\ focus_sessions[session_id].status = "rollback_failed"
            => session_id \notin focus_tasks

\* A rollback has failed and left its session in the store without a task
\* entry, while the other session is in the store, active, with its task
\* entry.
C39_Witness ==
  \E session_id, other \in DOMAIN focus_sessions :
    /\ focus_sessions[session_id].status = "rollback_failed"
    /\ session_id \notin focus_tasks
    /\ rb[<<session_id, "expiry">>].pc = "done"
    /\ applyCount[session_id] = 1
    /\ focus_sessions[other].status = "active"
    /\ other \in focus_tasks

====
